---- MODULE Spec2Model ----
(***************************************************************************)
(* Avatar reel creator: the editorial decision pipeline.                   *)
(*                                                                         *)
(* Script text -> segments (scriptParser), silence ranges -> avatar clips  *)
(* (silenceDetector), segments x assets -> matches (assetMatcher),         *)
(* matches -> layout decisions (layoutPlanner), all of it -> timeline      *)
(* (timelineBuilder), run in that order by runPipeline (pipeline).         *)
(*                                                                         *)
(* JavaScript strings are TLA+ strings (TLC gives Len, SubSeq and \o on    *)
(* them); a JavaScript number that holds a frame count is an integer, and  *)
(* a fractional number is carried as an exact fraction [num, den]. An      *)
(* object is a record, and an optional property is a field the record has  *)
(* or does not have; {...defaults, ...options} is options @@ defaults.     *)
(* Math.round(n / d) is floor(n / d + 1/2), as in ECMAScript.              *)
(***************************************************************************)
EXTENDS Integers, Sequences, FiniteSets, TLC

(***************************************************************************)
(* Strings and characters                                                  *)
(***************************************************************************)

\* An optional property of an object: a record has the field or does not.
\* Not computed yet, undefined, or an object with no property.
None == <<>>

Has(r, name) == name \in DOMAIN r

\* The record with the one field `name`, or with none when it is absent.
Optional(name, present, value) == IF present THEN name :> value ELSE <<>>

\* const name = value; followed by what is computed from it: body(value), the
\* value computed once.
With(value, body(_)) == CHOOSE result \in {body(v) : v \in {value}} : TRUE

Max(a, b) == IF a >= b THEN a ELSE b

Min(a, b) == IF a <= b THEN a ELSE b

\* Math.round of the fraction n / d, d > 0: the nearest integer, ties upward.
Round(n, d) == (2 * n + d) \div (2 * d)

Char(s, i) == SubSeq(s, i, i)

UpperLetters ==
  {"A","B","C","D","E","F","G","H","I","J","K","L","M",
   "N","O","P","Q","R","S","T","U","V","W","X","Y","Z"}

LowerLetters ==
  {"a","b","c","d","e","f","g","h","i","j","k","l","m",
   "n","o","p","q","r","s","t","u","v","w","x","y","z"}

Digits == {"0","1","2","3","4","5","6","7","8","9"}

\* \s of the regular expressions, as far as the scripts use it.
Whitespace == {" ", "\n", "\t", "\r"}

\* \w of the regular expressions.
WordChars == UpperLetters \cup LowerLetters \cup Digits \cup {"_"}

LowerOf ==
  [
    A |-> "a", B |-> "b", C |-> "c", D |-> "d", E |-> "e", F |-> "f", G |-> "g", H |-> "h",
    I |-> "i", J |-> "j", K |-> "k", L |-> "l", M |-> "m", N |-> "n", O |-> "o", P |-> "p",
    Q |-> "q", R |-> "r", S |-> "s", T |-> "t", U |-> "u", V |-> "v", W |-> "w", X |-> "x",
    Y |-> "y", Z |-> "z"
  ]

UpperOf ==
  [
    a |-> "A", b |-> "B", c |-> "C", d |-> "D", e |-> "E", f |-> "F", g |-> "G", h |-> "H",
    i |-> "I", j |-> "J", k |-> "K", l |-> "L", m |-> "M", n |-> "N", o |-> "O", p |-> "P",
    q |-> "Q", r |-> "R", s |-> "S", t |-> "T", u |-> "U", v |-> "V", w |-> "W", x |-> "X",
    y |-> "Y", z |-> "Z"
  ]

\* piece(1) \o ... \o piece(n), `empty` when n = 0: what a global replace or a
\* split leaves of a string, position by position. The range is halved at each
\* step.
ConcatOver(n, piece(_), empty) ==
  LET F[r \in (1..(n + 1)) \X (0..n)] ==
        IF r[1] > r[2] THEN empty
        ELSE IF r[1] = r[2] THEN piece(r[1])
        ELSE LET mid == (r[1] + r[2]) \div 2
             IN  F[<<r[1], mid>>] \o F[<<mid + 1, r[2]>>]
  IN  F[<<1, n>>]

toLowerCase(s) ==
  ConcatOver(Len(s),
             LAMBDA i : IF Char(s, i) \in UpperLetters THEN LowerOf[Char(s, i)]
                        ELSE Char(s, i),
             "")

toUpperCase(s) ==
  ConcatOver(Len(s),
             LAMBDA i : IF Char(s, i) \in LowerLetters THEN UpperOf[Char(s, i)]
                        ELSE Char(s, i),
             "")

\* s with every character outside `keep` removed: s.replace(/[^...]/g, '').
Keep(s, keep) ==
  ConcatOver(Len(s), LAMBDA i : IF Char(s, i) \in keep THEN Char(s, i) ELSE "", "")

\* s.includes(sub)
includes(s, sub) ==
  \E i \in 0..(Len(s) - Len(sub)) : SubSeq(s, i + 1, i + Len(sub)) = sub

\* s.trimStart() and s.trimEnd()
RECURSIVE trimStart(_)
trimStart(s) ==
  IF Len(s) > 0 /\ Char(s, 1) \in Whitespace THEN trimStart(SubSeq(s, 2, Len(s))) ELSE s

RECURSIVE trimEnd(_)
trimEnd(s) ==
  IF Len(s) > 0 /\ Char(s, Len(s)) \in Whitespace
  THEN trimEnd(SubSeq(s, 1, Len(s) - 1)) ELSE s

\* s.trim()
trim(s) == trimEnd(trimStart(s))

\* Where the run of non-separator characters that holds index i starts.
RECURSIVE PieceStart(_, _, _)
PieceStart(s, i, sep) ==
  IF i > 1 /\ Char(s, i - 1) \notin sep THEN PieceStart(s, i - 1, sep) ELSE i

\* s.split(/[sep]+/): the pieces between the maximal runs of separator
\* characters; a leading or trailing run leaves an empty first or last piece,
\* and "" splits into one empty piece.
split(s, sep) ==
  LET n == Len(s)
      \* the non-empty piece that ends with character i, if one does
      pieceEndingAt(i) ==
        IF Char(s, i) \notin sep /\ (i = n \/ Char(s, i + 1) \in sep)
        THEN <<SubSeq(s, PieceStart(s, i, sep), i)>>
        ELSE <<>>
  IN  (IF n = 0 \/ Char(s, 1) \in sep THEN <<"">> ELSE <<>>)
      \o ConcatOver(n, pieceEndingAt, <<>>)
      \o (IF n > 0 /\ Char(s, n) \in sep THEN <<"">> ELSE <<>>)

\* parts.join(sep)
RECURSIVE join(_, _)
join(parts, sep) ==
  IF Len(parts) = 0 THEN ""
  ELSE IF Len(parts) = 1 THEN parts[1]
  ELSE parts[1] \o sep \o join(Tail(parts), sep)

\* [...new Set(list)]: the first occurrence of every element, in order.
RECURSIVE unique(_)
unique(list) ==
  IF Len(list) = 0 THEN <<>>
  ELSE LET init == unique(SubSeq(list, 1, Len(list) - 1))
           x    == list[Len(list)]
       IN  IF \E i \in 1..Len(init) : init[i] = x THEN init ELSE Append(init, x)

Range(f) == {f[i] : i \in DOMAIN f}

RECURSIVE SumSeq(_)
SumSeq(q) == IF Len(q) = 0 THEN 0 ELSE q[1] + SumSeq(Tail(q))

(***************************************************************************)
(* utils/timing                                                            *)
(***************************************************************************)

SPEAKING_PACE_WPM == 140

\* seconds is the fraction sec.num / sec.den.
secondsToFrames(sec, fps) == Round(sec.num * fps, sec.den)

\* (wordCount / wordsPerMinute) * 60, as a fraction of a second.
estimateWordDuration(wordCount, wordsPerMinute) ==
  [num |-> wordCount * 60, den |-> wordsPerMinute]

Vowels == {"a", "e", "i", "o", "u", "y"}

\* The number of maximal runs of vowels in cleaned: cleaned.match(/[aeiouy]+/g).
VowelGroups(cleaned) ==
  Cardinality({i \in 1..Len(cleaned) :
                  /\ Char(cleaned, i) \in Vowels
                  /\ (i = 1 \/ Char(cleaned, i - 1) \notin Vowels)})

endsWith(s, suffix) ==
  Len(s) >= Len(suffix) /\ SubSeq(s, Len(s) - Len(suffix) + 1, Len(s)) = suffix

estimateSyllables(word) ==
  With(Keep(toLowerCase(word), LowerLetters), LAMBDA cleaned :
  With(VowelGroups(cleaned), LAMBDA groups :
  With(IF groups > 0 THEN groups ELSE 1, LAMBDA count0 :
  With(IF endsWith(cleaned, "e") /\ count0 > 1 THEN count0 - 1 ELSE count0, LAMBDA count1 :
  With(IF /\ endsWith(cleaned, "le")
          /\ Len(cleaned) > 2
          /\ Char(cleaned, Len(cleaned) - 2) \notin {"a", "e", "i", "o", "u"}
       THEN count1 + 1 ELSE count1, LAMBDA count2 :
    IF Len(cleaned) <= 3 THEN 1 ELSE Max(count2, 1))))))

\* wordEndFrame without the forced end of the last word.
wordEndFrameUnforced(i, n, currentFrame, wordFrames, totalFrames) ==
  currentFrame + wordFrames

\* The end frame of word i of n: the last word ends at totalFrames.
wordEndFrame(i, n, currentFrame, wordFrames, totalFrames) ==
  IF i = n THEN totalFrames ELSE currentFrame + wordFrames

distributeFramesAcrossWords(wordList, total, fps) ==
  With(<<>> \o [i \in 1..Len(wordList) |-> estimateSyllables(wordList[i])], LAMBDA weights :
  With(SumSeq(weights), LAMBDA totalWeight :
    LET n == Len(wordList)
        F[i \in 0..n] ==
          IF i = 0 THEN <<>>
          ELSE With(F[i - 1], LAMBDA done :
               With(IF i = 1 THEN 0 ELSE done[i - 1].endFrame, LAMBDA currentFrame :
               With(Round(weights[i] * total, totalWeight), LAMBDA wordFrames :
                 Append(done,
                        [word       |-> wordList[i],
                         startFrame |-> currentFrame,
                         endFrame   |-> wordEndFrame(i, n, currentFrame, wordFrames,
                                                     total)]))))
    IN  F[n]))

(***************************************************************************)
(* utils/keywords                                                          *)
(***************************************************************************)

STOP_WORDS ==
  {
    "a", "an", "the", "and", "or", "but", "in", "on", "at", "to", "for", "of", "with",
    "by", "from", "as", "is", "was", "are", "were", "been", "be", "have", "has", "had",
    "do", "does", "did", "will", "would", "could", "should", "may", "might", "must",
    "shall", "can", "need", "dare", "ought", "used", "it", "its", "this", "that", "these",
    "those", "i", "you", "he", "she", "we", "they", "what", "which", "who", "whom", "when",
    "where", "why", "how", "all", "each", "every", "both", "few", "more", "most", "other",
    "some", "such", "no", "nor", "not", "only", "own", "same", "so", "than", "too", "very",
    "just", "also", "now", "here", "there", "then", "once", "if", "about", "into",
    "through", "during", "before", "after", "above", "below", "between", "under", "again",
    "further", "while", "get", "got", "getting", "go", "going", "goes", "went", "come",
    "coming", "came", "let", "lets", "like", "know", "think", "want", "see", "look",
    "make", "way", "well", "back", "being", "because", "even", "still", "actually",
    "really", "basically", "literally", "um", "uh", "yeah", "okay"
  }

normalizeWord(word) == Keep(toLowerCase(word), LowerLetters \cup Digits)

isStopWord(word) == normalizeWord(word) \in STOP_WORDS

\* The test of extractKeywords on one whitespace-separated word.
isKeywordWord(word) ==
  With(normalizeWord(word), LAMBDA normalized :
    LET isProperNoun == Len(word) > 1 /\ Char(word, 1) \in UpperLetters
        isNumber     == \E i \in 1..Len(word) : Char(word, i) \in Digits
        isLongWord   == Len(normalized) >= 5
    IN  /\ Len(normalized) >= 3
        /\ ~isStopWord(word)
        /\ (isProperNoun \/ isNumber \/ isLongWord))

extractKeywords(text) ==
  With(SelectSeq(split(text, Whitespace), isKeywordWord), LAMBDA kept :
    unique([i \in 1..Len(kept) |-> normalizeWord(kept[i])]))

\* The substrings of s that start at a word boundary with a word character and
\* end with a word character at a word boundary: what \b( ... )\b can match.
BoundedSubstrings(s) ==
  LET n      == Len(s)
      starts == {i \in 1..n : /\ Char(s, i) \in WordChars
                              /\ (i = 1 \/ Char(s, i - 1) \notin WordChars)}
      ends   == {i \in 1..n : /\ Char(s, i) \in WordChars
                              /\ (i = n \/ Char(s, i + 1) \notin WordChars)}
  IN  {SubSeq(s, p[1], p[2]) : p \in {q \in starts \X ends : q[1] <= q[2]}}

startsWith(s, prefix) == Len(s) >= Len(prefix) /\ SubSeq(s, 1, Len(prefix)) = prefix

\* HIGH_IMPORTANCE_PATTERNS, the two patterns anchored at the start of the text.
HIGH_IMPORTANCE_PREFIXES ==
  {"introducing", "announcing", "presenting", "launching",
   "new", "first", "only", "best", "top", "leading"}

\* HIGH_IMPORTANCE_PATTERNS, the six \b( ... )\b patterns.
HIGH_IMPORTANCE_WORDS ==
  {"revolutionary", "groundbreaking", "gamechanging", "game-changing", "innovative",
   "exclusive", "limited", "special", "premium",
   "free", "save", "discount", "offer", "deal",
   "now", "today", "finally", "available",
   "secret", "key", "important", "crucial", "essential",
   "step", "tip", "trick", "hack", "strategy"}

\* The last index of the maximal run of characters of `class` that starts at
\* index a; a - 1 when the character at a is not in the class.
RECURSIVE RunEnd(_, _, _)
RunEnd(s, a, class) ==
  IF a <= Len(s) /\ Char(s, a) \in class THEN RunEnd(s, a + 1, class) ELSE a - 1

\* The first index of the maximal run of digits that ends at index i.
RECURSIVE DigitRunStart(_, _)
DigitRunStart(s, i) ==
  IF i > 1 /\ Char(s, i - 1) \in Digits THEN DigitRunStart(s, i - 1) ELSE i

\* /\b\d+%|\$\d+|\d+x\b/i on the lower-cased text.
HasNumberPattern(s) ==
  LET n == Len(s)
  IN  \/ \E p \in 2..n :
           /\ Char(s, p) = "%"
           /\ Char(s, p - 1) \in Digits
           /\ LET a == DigitRunStart(s, p - 1)
              IN  a = 1 \/ Char(s, a - 1) \notin WordChars
      \/ \E p \in 1..(n - 1) : Char(s, p) = "$" /\ Char(s, p + 1) \in Digits
      \/ \E p \in 1..(n - 1) :
           /\ Char(s, p) \in Digits
           /\ Char(s, p + 1) = "x"
           /\ (p + 1 = n \/ Char(s, p + 2) \notin WordChars)

hasHighImportanceIndicator(text) ==
  With(toLowerCase(text), LAMBDA s :
    \/ \E prefix \in HIGH_IMPORTANCE_PREFIXES : startsWith(s, prefix)
    \/ BoundedSubstrings(s) \cap HIGH_IMPORTANCE_WORDS # {}
    \/ HasNumberPattern(s))

CTA_PATTERNS ==
  {"click", "tap", "swipe", "subscribe", "follow", "like", "share", "comment",
   "sign up", "get started", "join", "download", "try", "buy", "order",
   "link in bio", "check out", "learn more", "find out",
   "don't miss", "don't wait", "act now", "hurry"}

hasCTA(text) == BoundedSubstrings(toLowerCase(text)) \cap CTA_PATTERNS # {}

determineImportance(text) ==
  With(Len(split(text, Whitespace)), LAMBDA wordCount :
  With(Len(extractKeywords(text)), LAMBDA keywordCount :
    IF hasHighImportanceIndicator(text) \/ hasCTA(text) THEN "high"
    \* keywords.length / wordCount > 0.3
    ELSE IF 10 * keywordCount > 3 * wordCount \/ keywordCount >= 3 THEN "medium"
    ELSE "low"))

\* The last index of [A-Z][a-z]+ at index a, 0 when there is none.
CapWordEnd(s, a) ==
  IF a <= Len(s) /\ Char(s, a) \in UpperLetters
  THEN With(RunEnd(s, a + 1, LowerLetters), LAMBDA e : IF e > a THEN e ELSE 0)
  ELSE 0

\* The ends of the capitalized words that follow one another from index a,
\* each separated from the next by whitespace only.
RECURSIVE CapChain(_, _)
CapChain(s, a) ==
  With(CapWordEnd(s, a), LAMBDA e :
    IF e = 0 THEN <<>>
    ELSE With(RunEnd(s, e + 1, Whitespace), LAMBDA w :
           IF w > e THEN <<e>> \o CapChain(s, w + 1) ELSE <<e>>))

\* The end of the match of /\b([A-Z][a-z]+(?:\s+[A-Z][a-z]+)+)\b/ at index a,
\* 0 when it does not match there.
BrandMatchEnd(s, a) ==
  With(CapChain(s, a), LAMBDA chain :
  With(Len(chain), LAMBDA n :
  With(IF n > 0 /\ (chain[n] = Len(s) \/ Char(s, chain[n] + 1) \notin WordChars)
       THEN n ELSE n - 1, LAMBDA k :
    IF (a = 1 \/ Char(s, a - 1) \notin WordChars) /\ k >= 2 THEN chain[k] ELSE 0)))

\* text.match(/.../g): the matches from index a on, leftmost first, none
\* overlapping another.
RECURSIVE BrandMatches(_, _)
BrandMatches(s, a) ==
  With({b \in a..Len(s) : Char(s, b) \in UpperLetters /\ BrandMatchEnd(s, b) > 0},
       LAMBDA starts :
    IF starts = {} THEN <<>>
    ELSE With(CHOOSE k \in starts : \A m \in starts : k <= m, LAMBDA b :
         With(BrandMatchEnd(s, b), LAMBDA e :
           <<SubSeq(s, b, e)>> \o BrandMatches(s, e + 1))))

extractBrandNames(text) == unique(BrandMatches(text, 1))

\* /"([^"]+)"/g from index a on: the quoted phrases, quotes removed.
RECURSIVE QuotedMatches(_, _)
QuotedMatches(s, a) ==
  With({i \in a..Len(s) : Char(s, i) = "\""}, LAMBDA opens :
    IF opens = {} THEN <<>>
    ELSE With(CHOOSE k \in opens : \A m \in opens : k <= m, LAMBDA i :
         With({k \in opens : k > i}, LAMBDA closes :
           IF closes = {} THEN <<>>
           ELSE With(CHOOSE k \in closes : \A m \in closes : k <= m, LAMBDA j :
                  IF j = i + 1 THEN QuotedMatches(s, j)
                  ELSE <<SubSeq(s, i + 1, j - 1)>> \o QuotedMatches(s, j + 1)))))

\* The end of the match of /\b(\d+\s+\w+)\b/ at index a, 0 when there is none.
NumberedMatchEnd(s, a) ==
  IF a <= Len(s) /\ Char(s, a) \in Digits /\ (a = 1 \/ Char(s, a - 1) \notin WordChars)
  THEN With(RunEnd(s, a, Digits), LAMBDA d :
       With(RunEnd(s, d + 1, Whitespace), LAMBDA w :
       With(RunEnd(s, w + 1, WordChars), LAMBDA e :
         IF w > d /\ e > w THEN e ELSE 0)))
  ELSE 0

RECURSIVE NumberedMatches(_, _)
NumberedMatches(s, a) ==
  With({b \in a..Len(s) : NumberedMatchEnd(s, b) > 0}, LAMBDA starts :
    IF starts = {} THEN <<>>
    ELSE With(CHOOSE k \in starts : \A m \in starts : k <= m, LAMBDA b :
         With(NumberedMatchEnd(s, b), LAMBDA e :
           <<SubSeq(s, b, e)>> \o NumberedMatches(s, e + 1))))

extractKeyPhrases(text) ==
  unique(QuotedMatches(text, 1) \o extractBrandNames(text) \o NumberedMatches(text, 1))

(***************************************************************************)
(* processing/scriptParser                                                 *)
(***************************************************************************)

SentenceEnd == {".", "!", "?"}

\* s with every maximal run of characters of `class` replaced by `by`.
ReplaceRuns(s, class, by) ==
  ConcatOver(Len(s),
             LAMBDA i : IF Char(s, i) \notin class THEN Char(s, i)
                        ELSE IF i > 1 /\ Char(s, i - 1) \in class THEN ""
                        ELSE by,
             "")

\* .replace(/\r\n/g, '\n')
ReplaceCrLf(s) ==
  ConcatOver(Len(s),
             LAMBDA i : IF Char(s, i) = "\r" /\ i < Len(s) /\ Char(s, i + 1) = "\n"
                        THEN "" ELSE Char(s, i),
             "")

\* .replace(/([.!?])([A-Z])/g, '$1 $2')
SpaceAfterSentenceEnd(s) ==
  ConcatOver(Len(s),
             LAMBDA i : IF i > 1 /\ Char(s, i - 1) \in SentenceEnd
                           /\ Char(s, i) \in UpperLetters
                        THEN " " \o Char(s, i) ELSE Char(s, i),
             "")

cleanScriptText(text) ==
  With(ReplaceCrLf(text), LAMBDA t1 :
  \* .replace(/\n+/g, ' ')
  With(ReplaceRuns(t1, {"\n"}, " "), LAMBDA t2 :
  With(SpaceAfterSentenceEnd(t2), LAMBDA t3 :
  \* .replace(/[ \t]+/g, ' ')
  With(ReplaceRuns(t3, {" ", "\t"}, " "), LAMBDA t4 :
    trim(t4)))))

\* sentencePattern matched at offset q (between character q and q + 1): the
\* offset where the match ends, or -1. First alternative: whitespace after a
\* sentence end and before a capital; second: after a newline, any whitespace
\* before a non-whitespace character.
SentencePatternAt(s, q) ==
  With(RunEnd(s, q + 1, Whitespace), LAMBDA w :
    IF q >= 1 /\ Char(s, q) \in SentenceEnd /\ w > q /\ w < Len(s)
       /\ Char(s, w + 1) \in UpperLetters
    THEN w
    ELSE IF q >= 1 /\ Char(s, q) = "\n" /\ w < Len(s) THEN w
    ELSE -1)

\* String.prototype.split with a regular expression: p is the offset where the
\* current piece starts, q the offset where a match is tried next.
RECURSIVE SplitAtSentencePattern(_, _, _)
SplitAtSentencePattern(s, p, q) ==
  With({k \in q..(Len(s) - 1) : SentencePatternAt(s, k) \notin {-1, p}}, LAMBDA found :
    IF found = {} THEN <<SubSeq(s, p + 1, Len(s))>>
    ELSE With(CHOOSE m \in found : \A o \in found : m <= o, LAMBDA k :
         With(SentencePatternAt(s, k), LAMBDA e :
           <<SubSeq(s, p + 1, k)>> \o SplitAtSentencePattern(s, e, e))))

splitIntoSentencesKeepingBlanks(text) ==
  With(IF Len(text) = 0 THEN <<"">> ELSE SplitAtSentencePattern(text, 0, 0), LAMBDA pieces :
    <<>> \o [i \in 1..Len(pieces) |-> trim(pieces[i])])

\* text.split(sentencePattern): the pieces that are not blank, each trimmed.
splitIntoSentences(text) ==
  With(IF Len(text) = 0 THEN <<"">> ELSE SplitAtSentencePattern(text, 0, 0), LAMBDA pieces :
    SelectSeq([i \in 1..Len(pieces) |-> trim(pieces[i])], LAMBDA t : Len(t) > 0))

\* sentence.split(/\s+/).length
wordCount(s) == Len(split(s, Whitespace))

\* The condition of line 164 under which the group collected so far is flushed
\* before the sentence is added.
flushBeforeAddingAtMin(currentWordCount, sentenceWords, minWords, maxWords) ==
  currentWordCount >= minWords

flushBeforeAddingIgnoringMin(currentWordCount, sentenceWords, minWords, maxWords) ==
  currentWordCount + sentenceWords > maxWords

flushBeforeAdding(currentWordCount, sentenceWords, minWords, maxWords) ==
  currentWordCount + sentenceWords > maxWords /\ currentWordCount >= minWords

\* The loop of groupIntoSegments over sentences 1..i: the groups pushed so far
\* (each the list of its sentences) and the group being collected.
RECURSIVE groupLoop(_, _, _, _)
groupLoop(sentences, i, minWords, maxWords) ==
  IF i = 0 THEN [segments |-> <<>>, currentSegment |-> <<>>, currentWordCount |-> 0]
  ELSE With(groupLoop(sentences, i - 1, minWords, maxWords), LAMBDA st :
       With(sentences[i], LAMBDA sentence :
       With(wordCount(sentence), LAMBDA sentenceWords :
         IF sentenceWords > maxWords
         THEN [segments |->
                 (IF Len(st.currentSegment) > 0
                  THEN Append(st.segments, st.currentSegment) ELSE st.segments)
                 \o <<(<<sentence>>)>>,
               currentSegment |-> <<>>,
               currentWordCount |-> 0]
         ELSE IF flushBeforeAdding(st.currentWordCount, sentenceWords, minWords, maxWords)
         THEN [segments |-> Append(st.segments, st.currentSegment),
               currentSegment |-> <<sentence>>,
               currentWordCount |-> sentenceWords]
         ELSE [segments |-> st.segments,
               currentSegment |-> Append(st.currentSegment, sentence),
               currentWordCount |-> st.currentWordCount + sentenceWords])))

\* The sentences of every segment of groupIntoSegments, in order.
sentenceGroups(sentences, minWords, maxWords) ==
  With(groupLoop(sentences, Len(sentences), minWords, maxWords), LAMBDA st :
    IF Len(st.currentSegment) > 0 THEN Append(st.segments, st.currentSegment)
    ELSE st.segments)

groupIntoSegments(sentences, minWords, maxWords) ==
  With(sentenceGroups(sentences, minWords, maxWords), LAMBDA groups :
    <<>> \o [i \in 1..Len(groups) |-> join(groups[i], " ")])

segmentEndFrameUnforced(i, n, currentFrame, segmentFrames, total) ==
  currentFrame + segmentFrames

\* The end frame of segment i of n: the last segment ends at totalFrames.
segmentEndFrame(i, n, currentFrame, segmentFrames, total) ==
  IF i = n THEN total ELSE currentFrame + segmentFrames

calculateSegmentFrames(segmentTexts, total) ==
  With(<<>> \o [i \in 1..Len(segmentTexts) |-> wordCount(segmentTexts[i])],
       LAMBDA wordCounts :
  With(SumSeq(wordCounts), LAMBDA totalWords :
    LET n == Len(wordCounts)
        F[i \in 0..n] ==
          IF i = 0 THEN <<>>
          ELSE With(F[i - 1], LAMBDA done :
               With(IF i = 1 THEN 0 ELSE done[i - 1].endFrame, LAMBDA currentFrame :
               With(Round(wordCounts[i] * total, totalWords), LAMBDA segmentFrames :
               With(segmentEndFrame(i, n, currentFrame, segmentFrames, total),
                    LAMBDA endFrame :
                 Append(done,
                        [startFrame     |-> currentFrame,
                         endFrame       |-> endFrame,
                         durationFrames |-> endFrame - currentFrame])))))
    IN  F[n]))

parseWordsWithTiming(text, segmentStartFrame, segmentDurationFrames, fps, segmentKeywords) ==
  With(SelectSeq(split(text, Whitespace), LAMBDA w : Len(w) > 0), LAMBDA wordStrings :
  With(distributeFramesAcrossWords(wordStrings, segmentDurationFrames, fps),
       LAMBDA timings :
  With(Range(segmentKeywords), LAMBDA keywordSet :
    <<>> \o
    [i \in 1..Len(timings) |->
       With(timings[i], LAMBDA timing :
         [text       |-> timing.word,
          startFrame |-> segmentStartFrame + timing.startFrame,
          endFrame   |-> segmentStartFrame + timing.endFrame,
          isKeyword  |-> /\ normalizeWord(timing.word) \in keywordSet
                         /\ ~isStopWord(timing.word)])])))

\* The decimal digits of a natural number: `${n}`.
RECURSIVE numberToString(_)
numberToString(n) ==
  LET d == SubSeq("0123456789", (n % 10) + 1, (n % 10) + 1)
  IN  IF n < 10 THEN d ELSE numberToString(n \div 10) \o d

\* DEFAULT_OPTIONS of the parser.
PARSER_DEFAULT_OPTIONS == [minSegmentWords |-> 5, maxSegmentWords |-> 25]

\* options: a record with fps and, each optional, totalDurationFrames,
\* minSegmentWords and maxSegmentWords.
buildSegment(segText, index, b, fps, keyPhrases) ==
  With(extractKeywords(segText), LAMBDA segmentKeywords :
    [id             |-> "segment-" \o numberToString(index),
     text           |-> segText,
     words          |-> parseWordsWithTiming(segText, b.startFrame,
                          b.durationFrames, fps, segmentKeywords),
     startFrame     |-> b.startFrame,
     endFrame       |-> b.endFrame,
     durationFrames |-> b.durationFrames,
     keywords       |-> segmentKeywords,
     importance     |-> determineImportance(segText),
     hasKeyPhrase   |-> With(toLowerCase(segText), LAMBDA lowerText :
                          \E k \in 1..Len(keyPhrases) :
                            includes(lowerText, toLowerCase(keyPhrases[k])))])

parseScript(text, options) ==
  With(options @@ PARSER_DEFAULT_OPTIONS, LAMBDA opts :
  With(cleanScriptText(text), LAMBDA cleanedText :
  With(groupIntoSegments(splitIntoSentences(cleanedText),
                         opts.minSegmentWords, opts.maxSegmentWords),
       LAMBDA rawSegments :
  With(SumSeq([i \in 1..Len(rawSegments) |-> wordCount(rawSegments[i])]),
       LAMBDA totalWords :
  With(IF "totalDurationFrames" \in DOMAIN opts
       THEN opts.totalDurationFrames
       ELSE secondsToFrames(estimateWordDuration(totalWords, SPEAKING_PACE_WPM), opts.fps),
       LAMBDA finalTotalFrames :
  With(extractKeyPhrases(cleanedText), LAMBDA keyPhrases :
  With(calculateSegmentFrames(rawSegments, finalTotalFrames), LAMBDA segmentBoundaries :
    [segments |->
       <<>> \o
       [index \in 1..Len(rawSegments) |->
          buildSegment(rawSegments[index], index, segmentBoundaries[index],
                       opts.fps, keyPhrases)],
     totalWords           |-> totalWords,
     totalEstimatedFrames |-> finalTotalFrames,
     allKeywords          |-> extractKeywords(cleanedText),
     keyPhrases           |-> keyPhrases])))))))

\* retimeSegment with the word timings left as they were.
retimeSegmentKeepingWords(segment, b, fps) ==
  [segment EXCEPT
     !.startFrame     = b.startFrame,
     !.endFrame       = b.endFrame,
     !.durationFrames = b.durationFrames]

retimeSegment(segment, b, fps) ==
  [segment EXCEPT
     !.startFrame     = b.startFrame,
     !.endFrame       = b.endFrame,
     !.durationFrames = b.durationFrames,
     !.words          = parseWordsWithTiming(segment.text, b.startFrame,
                          b.durationFrames, fps, segment.keywords)]

realignSegmentTimings(parsed, actualTotalFrames, fps) ==
  With(parsed.segments, LAMBDA segs :
  With(calculateSegmentFrames([i \in 1..Len(segs) |-> segs[i].text], actualTotalFrames),
       LAMBDA newBoundaries :
    [parsed EXCEPT
       !.segments =
          <<>> \o
          [index \in 1..Len(segs) |->
             retimeSegment(segs[index], newBoundaries[index], fps)],
       !.totalEstimatedFrames = actualTotalFrames]))

(***************************************************************************)
(* processing/silenceDetector                                              *)
(*                                                                         *)
(* Times in seconds are fractions; the instances checked use quarters of a *)
(* second, which a double holds exactly, so every difference, product and  *)
(* rounding below is the value the program computes.                       *)
(***************************************************************************)

\* a - b and a >= b on fractions of a second.
SecondsMinus(a, b) == [num |-> a.num * b.den - b.num * a.den, den |-> a.den * b.den]

SecondsAtLeast(a, b) == a.num * b.den >= b.num * a.den

\* [...list].sort((a, b) => key(a) - key(b)): ascending and stable.
StableSort(list, Less(_, _)) ==
  LET F[i \in 0..Len(list)] ==
        IF i = 0 THEN <<>>
        ELSE With(F[i - 1], LAMBDA done :
             With(list[i], LAMBDA x :
             With(Cardinality({j \in 1..Len(done) : ~Less(x, done[j])}), LAMBDA k :
               SubSeq(done, 1, k) \o <<x>> \o SubSeq(done, k + 1, Len(done)))))
  IN  F[Len(list)]

\* DEFAULT_OPTIONS of the silence detector: 0.5 s and 1.0 s.
DETECTOR_DEFAULT_OPTIONS ==
  [silenceThresholdSeconds |-> [num |-> 1, den |-> 2],
   minClipDurationSeconds  |-> [num |-> 1, den |-> 1]]

unsortedSilences(silences) == silences

sortedSilences(silences) ==
  StableSort(silences, LAMBDA a, b : a.startFrame < b.startFrame)

keepOutputFrame(outputFrame, clipDuration) == outputFrame

\* outputFrame += clipDuration
advanceOutputFrame(outputFrame, clipDuration) == outputFrame + clipDuration

\* One pass of the loop over the sorted silences.
clipBeforeSilence(st, silence, src, minClipFrames) ==
  With(silence.startFrame - st.currentFrame, LAMBDA clipDuration :
    IF clipDuration >= minClipFrames
    THEN [clips |-> Append(st.clips,
                      [src                |-> src,
                       startFrame         |-> st.outputFrame,
                       endFrame           |-> st.outputFrame + clipDuration,
                       originalStartFrame |-> st.currentFrame,
                       originalEndFrame   |-> silence.startFrame,
                       volume             |-> 1]),
          currentFrame |-> silence.endFrame,
          outputFrame  |-> advanceOutputFrame(st.outputFrame, clipDuration)]
    ELSE [st EXCEPT !.currentFrame = silence.endFrame])

\* The clip after the last silence, when it is long enough.
clipAfterLastSilence(end, src, total, minClipFrames) ==
  With(total - end.currentFrame, LAMBDA remainingFrames :
    IF remainingFrames >= minClipFrames
    THEN Append(end.clips,
                [src                |-> src,
                 startFrame         |-> end.outputFrame,
                 endFrame           |-> end.outputFrame + remainingFrames,
                 originalStartFrame |-> end.currentFrame,
                 originalEndFrame   |-> total,
                 volume             |-> 1])
    ELSE end.clips)

generateClipsFromSilences(src, total, silences, minClipFrames) ==
  With(sortedSilences(silences), LAMBDA sorted :
    LET \* after the first i silences
        F[i \in 0..Len(sorted)] ==
          IF i = 0 THEN [clips |-> <<>>, currentFrame |-> 0, outputFrame |-> 0]
          ELSE With(F[i - 1], LAMBDA st :
                 clipBeforeSilence(st, sorted[i], src, minClipFrames))
    IN  With(F[Len(sorted)], LAMBDA end :
          clipAfterLastSilence(end, src, total, minClipFrames)))

\* silenceInput: [silences: list of [startSeconds, endSeconds],
\* totalDurationSeconds]; options: fps and, each optional,
\* silenceThresholdSeconds and minClipDurationSeconds.
\* The SilenceRegion of one silence of the input.
silenceRegion(s, fps) ==
  [startFrame     |-> secondsToFrames(s.startSeconds, fps),
   endFrame       |-> secondsToFrames(s.endSeconds, fps),
   durationFrames |-> secondsToFrames(SecondsMinus(s.endSeconds, s.startSeconds), fps)]

processAvatarWithSilences(avatarSrc, silenceInput, options) ==
  With(options @@ DETECTOR_DEFAULT_OPTIONS, LAMBDA opts :
  With(secondsToFrames(silenceInput.totalDurationSeconds, opts.fps),
       LAMBDA totalDurationFrames :
  With(SelectSeq(silenceInput.silences,
         LAMBDA s : SecondsAtLeast(SecondsMinus(s.endSeconds, s.startSeconds),
                                   opts.silenceThresholdSeconds)),
       LAMBDA long :
  With(<<>> \o [i \in 1..Len(long) |-> silenceRegion(long[i], opts.fps)],
       LAMBDA silenceRegions :
  With(generateClipsFromSilences(avatarSrc, totalDurationFrames, silenceRegions,
         secondsToFrames(opts.minClipDurationSeconds, opts.fps)),
       LAMBDA clips :
    [originalDurationFrames  |-> totalDurationFrames,
     processedDurationFrames |->
       SumSeq([i \in 1..Len(clips) |-> clips[i].endFrame - clips[i].startFrame]),
     silenceRegions          |-> silenceRegions,
     clips                   |-> clips])))))

processAvatarWithoutTrimming(avatarSrc, totalDurationFrames) ==
  [originalDurationFrames  |-> totalDurationFrames,
   processedDurationFrames |-> totalDurationFrames,
   silenceRegions          |-> <<>>,
   clips                   |-> <<[src                |-> avatarSrc,
                                  startFrame         |-> 0,
                                  endFrame           |-> totalDurationFrames,
                                  originalStartFrame |-> 0,
                                  originalEndFrame   |-> totalDurationFrames,
                                  volume             |-> 1]>>]

\* mergeCloseClips writes to the clips it holds, so the clips are objects
\* here: heap lists the objects there are, a reference is a position in
\* heap, and an array of clips is a list of references.

\* The default of the parameter minGapFrames.
DEFAULT_MIN_GAP_FRAMES == 3

\* { ...clip }: the heap with a new object that has the fields of the one at
\* ref; its reference is the new length of the heap.
spreadClip(objects, ref) == Append(objects, objects[ref])

\* mergeStart with the first clip itself in merged, no copy made of it.
mergeKeepingFirstClip(st, clips) ==
  [objects |-> st.objects, merged |-> <<clips[1]>>]

\* const merged = [{ ...clips[0] }]
mergeStart(st, clips) ==
  [objects |-> spreadClip(st.objects, clips[1]), merged |-> <<Len(st.objects) + 1>>]

\* The branch that extends prev, the last clip of merged, over current.
extendPrev(st, prev, current, gap) ==
  [st EXCEPT
     !.objects[prev] =
        [@ EXCEPT !.endFrame = @ + (current.endFrame - current.startFrame) + gap,
                  !.originalEndFrame = current.originalEndFrame]]

\* mergeStep with a gap of exactly the tolerance not merged.
mergeStepBelowTolerance(st, ref, tolerance) ==
  With(st.merged[Len(st.merged)], LAMBDA prev :
  With(st.objects[ref], LAMBDA current :
  With(current.originalStartFrame - st.objects[prev].originalEndFrame, LAMBDA gap :
    IF gap < tolerance
    THEN extendPrev(st, prev, current, gap)
    ELSE [objects |-> spreadClip(st.objects, ref),
          merged  |-> Append(st.merged, Len(st.objects) + 1)])))

\* One pass of the loop of mergeCloseClips, for the clip at ref.
mergeStep(st, ref, tolerance) ==
  With(st.merged[Len(st.merged)], LAMBDA prev :
  With(st.objects[ref], LAMBDA current :
  With(current.originalStartFrame - st.objects[prev].originalEndFrame, LAMBDA gap :
    IF gap <= tolerance
    THEN extendPrev(st, prev, current, gap)
    ELSE [objects |-> spreadClip(st.objects, ref),
          merged  |-> Append(st.merged, Len(st.objects) + 1)])))

\* The heap after the call, the array returned as references, and whether
\* the array returned is the array handed in.
mergeCloseClips(objects, clips, gapFrames) ==
  With(IF gapFrames = None THEN DEFAULT_MIN_GAP_FRAMES ELSE gapFrames[1], LAMBDA tolerance :
    IF Len(clips) <= 1
    THEN [objects |-> objects, merged |-> clips, sameArray |-> TRUE]
    ELSE LET F[i \in 1..Len(clips)] ==
               IF i = 1 THEN mergeStart([objects |-> objects], clips)
               ELSE With(F[i - 1], LAMBDA st : mergeStep(st, clips[i], tolerance))
         IN  F[Len(clips)] @@ [sameArray |-> FALSE])

\* The clips an array of references holds.
clipsAt(objects, refs) == <<>> \o [i \in 1..Len(refs) |-> objects[refs[i]]]

(***************************************************************************)
(* processing/assetMatcher                                                 *)
(*                                                                         *)
(* A relevance score is the exact fraction [num, den] of the weighted sum  *)
(* the program computes in floating point.                                 *)
(***************************************************************************)

Max3(a, b, c) == Max(Max(a, b), c)

FractionLess(a, b) == a.num * b.den < b.num * a.den

\* path.split('/').pop(): what follows the last slash.
AfterLastSlash(path) ==
  With({i \in 1..Len(path) : Char(path, i) = "/"}, LAMBDA slashes :
    SubSeq(path,
           (IF slashes = {} THEN 0 ELSE CHOOSE i \in slashes : \A j \in slashes : j <= i) + 1,
           Len(path)))

\* name.replace(/\.[^.]+$/, ''): drop a last dot that has characters after it.
WithoutExtension(name) ==
  With({i \in 1..Len(name) : Char(name, i) = "."}, LAMBDA dots :
  With(IF dots = {} THEN 0 ELSE CHOOSE i \in dots : \A j \in dots : j <= i, LAMBDA last :
    IF last = 0 \/ last = Len(name) THEN name ELSE SubSeq(name, 1, last - 1)))

extractKeywordsFromFilename(filename) ==
  With(split(WithoutExtension(AfterLastSlash(filename)), {"-", "_"} \cup Whitespace),
       LAMBDA parts :
    SelectSeq([i \in 1..Len(parts) |-> normalizeWord(parts[i])], LAMBDA p : Len(p) >= 3))

\* word.charAt(0).toUpperCase() + word.slice(1).toLowerCase()
Capitalize(word) ==
  toUpperCase(SubSeq(word, 1, 1)) \o toLowerCase(SubSeq(word, 2, Len(word)))

createHelperAssetFromPath(filePath, type) ==
  With(WithoutExtension(AfterLastSlash(filePath)), LAMBDA stripped :
  With(split(IF stripped = "" THEN filePath ELSE stripped, {"-", "_"}), LAMBDA parts :
    [type     |-> type,
     src      |-> filePath,
     title    |-> join([i \in 1..Len(parts) |-> Capitalize(parts[i])], " "),
     keywords |-> extractKeywordsFromFilename(filePath),
     fit      |-> "cover"]))

unclampedScore(raw) == raw

\* Math.min(raw, 1.0)
clampScore(raw) == IF raw.num > raw.den THEN [num |-> 1, den |-> 1] ELSE raw

\* One pass of the inner loop body, for the pair (segKw, assetKw).
countKeywordPair(st, segKw, assetKw) ==
  IF segKw = assetKw
  THEN [st EXCEPT !.directMatches = @ + 1,
                  !.matchedKeywords = Append(@, segKw)]
  ELSE IF includes(segKw, assetKw) \/ includes(assetKw, segKw)
  THEN [st EXCEPT !.partialMatches = @ + 1,
                  !.matchedKeywords = IF segKw \in Range(@) THEN @ ELSE Append(@, segKw)]
  ELSE st

\* The two nested loops, pair k being (segKw, assetKw).
countKeywordMatches(segmentKeywords, assetKeywords) ==
  LET A == Len(assetKeywords)
      F[k \in 0..(Len(segmentKeywords) * A)] ==
        IF k = 0 THEN [directMatches |-> 0, partialMatches |-> 0, matchedKeywords |-> <<>>]
        ELSE countKeywordPair(F[k - 1], segmentKeywords[((k - 1) \div A) + 1],
                              assetKeywords[((k - 1) % A) + 1])
  IN  F[Len(segmentKeywords) * A]

\* The loop over titleWords.
countTitleMatches(titleWords, segmentTextLower) ==
  Cardinality({i \in 1..Len(titleWords) :
                 Len(titleWords[i]) >= 4 /\ includes(segmentTextLower, titleWords[i])})

\* directMatches / maxPossible
directScore(directMatches, maxPossible) == [num |-> directMatches, den |-> maxPossible]

\* (partialMatches * 0.5) / maxPossible
partialScore(partialMatches, maxPossible) == [num |-> partialMatches, den |-> 2 * maxPossible]

\* titleMatches / Math.max(titleWords.length, 1)
titleScore(titleMatches, titleWordCount) ==
  [num |-> titleMatches, den |-> Max(titleWordCount, 1)]

\* What calculateAssetRelevance has counted before it combines the scores.
relevanceCounts(segment, asset) ==
  With(countKeywordMatches(segment.keywords, asset.keywords), LAMBDA counted :
  With(split(toLowerCase(asset.title), Whitespace), LAMBDA titleWords :
    [directMatches   |-> counted.directMatches,
     partialMatches  |-> counted.partialMatches,
     matchedKeywords |-> counted.matchedKeywords,
     titleMatches    |-> countTitleMatches(titleWords, toLowerCase(segment.text)),
     maxPossible     |-> Max3(Len(segment.keywords), Len(asset.keywords), 1),
     titleCount      |-> Max(Len(titleWords), 1)]))

\* directScore * 0.6 + partialScore * 0.25 + titleScore * 0.15
weightedScore(counts) ==
  [num |-> 600 * counts.directMatches * counts.titleCount
             + 125 * counts.partialMatches * counts.titleCount
             + 150 * counts.titleMatches * counts.maxPossible,
   den |-> 1000 * counts.maxPossible * counts.titleCount]

calculateAssetRelevance(segment, asset) ==
  With(relevanceCounts(segment, asset), LAMBDA counts :
    [score           |-> clampScore(weightedScore(counts)),
     matchedKeywords |-> unique(counts.matchedKeywords)])

\* DEFAULT_OPTIONS of the matcher; minRelevanceScore is 0.15.
MATCHER_DEFAULT_OPTIONS ==
  [minRelevanceScore   |-> [num |-> 15, den |-> 100],
   maxAssetsPerSegment |-> 1,
   allowAssetReuse     |-> TRUE]

\* skipsCandidate with an asset that is in use never skipped for it.
skipsCandidateReusing(segmentMatchCount, maxAssetsPerSegment, assetUsed, allowAssetReuse, alreadyMatchedToSegment) ==
  \/ segmentMatchCount >= maxAssetsPerSegment
  \/ alreadyMatchedToSegment

skipsOnlyUsedAssets(segmentMatchCount, maxAssetsPerSegment, assetUsed, allowAssetReuse, alreadyMatchedToSegment) ==
  ~allowAssetReuse /\ assetUsed

\* The three `continue` conditions of the greedy assignment.
skipsCandidate(segmentMatchCount, maxAssetsPerSegment, assetUsed, allowAssetReuse, alreadyMatchedToSegment) ==
  \/ segmentMatchCount >= maxAssetsPerSegment
  \/ ~allowAssetReuse /\ assetUsed
  \/ alreadyMatchedToSegment

\* The body of the scoring loops for one (segment, asset) pair.
scorePair(segment, asset) ==
  With(calculateAssetRelevance(segment, asset), LAMBDA rel :
    [segmentId |-> segment.id, asset |-> asset, score |-> rel.score,
     matchedKeywords |-> rel.matchedKeywords])

\* allScores before it is sorted: the pairs scoring at least minRelevanceScore.
scoreAllPairs(segments, assets, minRelevanceScore) ==
  SelectSeq([k \in 1..(Len(segments) * Len(assets)) |->
               scorePair(segments[((k - 1) \div Len(assets)) + 1],
                         assets[((k - 1) % Len(assets)) + 1])],
            LAMBDA c : ~FractionLess(c.score, minRelevanceScore))

\* One pass of the greedy assignment loop, for the candidate c.
assignCandidate(st, c, opts) ==
  IF skipsCandidate(
       Cardinality({m \in 1..Len(st.matches) : st.matches[m].segmentId = c.segmentId}),
       opts.maxAssetsPerSegment,
       c.asset.src \in st.usedAssets,
       opts.allowAssetReuse,
       \E m \in 1..Len(st.matches) :
         /\ st.matches[m].segmentId = c.segmentId
         /\ st.matches[m].asset.src = c.asset.src)
  THEN st
  ELSE [matches |-> Append(st.matches,
                      [segmentId       |-> c.segmentId,
                       asset           |-> c.asset,
                       relevanceScore  |-> c.score,
                       matchedKeywords |-> c.matchedKeywords]),
        usedAssets      |-> st.usedAssets \cup {c.asset.src},
        matchedSegments |-> st.matchedSegments \cup {c.segmentId}]

greedyAssignment(allScores, opts) ==
  LET F[k \in 0..Len(allScores)] ==
        IF k = 0 THEN [matches |-> <<>>, usedAssets |-> {}, matchedSegments |-> {}]
        ELSE With(F[k - 1], LAMBDA st : assignCandidate(st, allScores[k], opts))
  IN  F[Len(allScores)]

\* unmatchedIds with every segment reported, matched or not.
unmatchedIdsOfAll(segments, matchedSegments) ==
  <<>> \o [i \in 1..Len(segments) |-> segments[i].id]

\* segments.filter((s) => !matchedSegments.has(s.id)).map((s) => s.id)
unmatchedIds(segments, matchedSegments) ==
  With(SelectSeq(segments, LAMBDA s : s.id \notin matchedSegments), LAMBDA un :
    <<>> \o [i \in 1..Len(un) |-> un[i].id])

\* assets.filter((a) => !usedAssets.has(a.src)).map((a) => a.src)
unmatchedSrcs(assets, usedAssets) ==
  With(SelectSeq(assets, LAMBDA a : a.src \notin usedAssets), LAMBDA un :
    <<>> \o [i \in 1..Len(un) |-> un[i].src])

\* matchAssetsToSegments with the pairs assigned in the order they are
\* scored, not by score.
matchAssetsToSegmentsInScoringOrder(segments, assets, options) ==
  With(options @@ MATCHER_DEFAULT_OPTIONS, LAMBDA opts :
  With(greedyAssignment(scoreAllPairs(segments, assets, opts.minRelevanceScore), opts),
       LAMBDA end :
    [matches           |-> end.matches,
     unmatchedSegments |-> unmatchedIds(segments, end.matchedSegments),
     unmatchedAssets   |-> unmatchedSrcs(assets, end.usedAssets)]))

matchAssetsToSegments(segments, assets, options) ==
  With(options @@ MATCHER_DEFAULT_OPTIONS, LAMBDA opts :
  With(StableSort(scoreAllPairs(segments, assets, opts.minRelevanceScore),
                  LAMBDA a, b : FractionLess(b.score, a.score)),
       LAMBDA allScores :
  With(greedyAssignment(allScores, opts), LAMBDA end :
    [matches           |-> end.matches,
     unmatchedSegments |-> unmatchedIds(segments, end.matchedSegments),
     unmatchedAssets   |-> unmatchedSrcs(assets, end.usedAssets)])))

(***************************************************************************)
(* processing/layoutPlanner                                                *)
(*                                                                         *)
(* An absent value (undefined) is None. Math.random() is not a function of *)
(* the program's inputs: decideTransition takes the values its calls       *)
(* return as `random`, and the caller chooses them.                        *)
(***************************************************************************)

IsDefined(x) == DOMAIN x # {}

\* x.toFixed(2) of a fraction x >= 0.
toFixed2(x) ==
  LET n == Round(100 * x.num, x.den)
      cents == n % 100
  IN  numberToString(n \div 100) \o "."
        \o (IF cents < 10 THEN "0" ELSE "") \o numberToString(cents)

\* DEFAULT_OPTIONS of the planner; transitionSfxProbability is 0.7.
PLANNER_DEFAULT_OPTIONS ==
  [transitionDurationFrames |-> 8,
   transitionSfxProbability |-> [num |-> 7, den |-> 10],
   sfxSources               |-> None,
   defaultTextOverlayStyle  |->
     [primaryFont   |-> [family |-> "Inter", size |-> 72, weight |-> 800,
                         color |-> "#FFFFFF", shadow |-> "0 4px 12px rgba(0,0,0,0.8)"],
      secondaryFont |-> [family |-> "Inter", size |-> 36, weight |-> 500,
                         color |-> "#CCCCCC"],
      padding       |-> 24]]

\* The Map of planLayouts: for each segment id with a match, its first match
\* of the highest relevanceScore.
\* bestMatchPerSegment with the last match of a segment kept, whatever it
\* scores.
lastMatchPerSegment(assetMatches) ==
  LET F[k \in 0..Len(assetMatches)] ==
        IF k = 0 THEN None
        ELSE With(F[k - 1], LAMBDA map :
               (assetMatches[k].segmentId :> assetMatches[k]) @@ map)
  IN  F[Len(assetMatches)]

bestMatchPerSegment(assetMatches) ==
  LET F[k \in 0..Len(assetMatches)] ==
        IF k = 0 THEN None
        ELSE With(F[k - 1], LAMBDA map :
             With(assetMatches[k], LAMBDA match :
               IF \/ match.segmentId \notin DOMAIN map
                  \/ FractionLess(map[match.segmentId].relevanceScore, match.relevanceScore)
               THEN (match.segmentId :> match) @@ map
               ELSE map))
  IN  F[Len(assetMatches)]

layoutIgnoringImportance(segment, assetMatch) == IF IsDefined(assetMatch) THEN "C" ELSE "A"

\* The layout decideLayout returns.
layoutFor(segment, assetMatch) ==
  IF IsDefined(assetMatch) /\ segment.importance = "high" THEN "C"
  ELSE IF IsDefined(assetMatch) THEN "B"
  ELSE "A"

\* The reasoning decideLayout gives for the layout it returns.
layoutReasoning(layout, segment, assetMatch) ==
  IF layout = "C"
  THEN "High importance segment with matched asset ("
         \o toFixed2(assetMatch.relevanceScore) \o " relevance)"
  ELSE IF layout = "B"
  THEN "Matched asset: " \o assetMatch.asset.title \o " ("
         \o toFixed2(assetMatch.relevanceScore) \o " relevance)"
  ELSE IF segment.hasKeyPhrase
  THEN "Key phrase detected, will use text overlay"
  ELSE "Default full avatar layout"

decideLayout(segment, assetMatch) ==
  With(layoutFor(segment, assetMatch), LAMBDA layout :
    [layout |-> layout, reasoning |-> layoutReasoning(layout, segment, assetMatch)])

\* random.type is what Math.random() returns where the transition type is
\* drawn, random.sfx what it returns where the sound is drawn.
\* Math.random() > p / q, for the value drawn.
Above(drawn, p, q) == FractionLess([num |-> p, den |-> q], drawn)

\* The transition type and the sound of the layout change; drawn is what
\* Math.random() returns where a type is drawn.
\* transitionChoice with the choice for A to A made on every unchanged layout.
transitionChoiceOnChangeOnly(fromLayout, toLayout, drawn) ==
  IF fromLayout = toLayout
  THEN [type |-> IF Above(drawn, 2, 5) THEN "cut" ELSE "fade", sfxKey |-> "click"]
  ELSE IF fromLayout = "A" /\ toLayout \in {"B", "C"}
  THEN [type |-> IF Above(drawn, 1, 2) THEN "slide-left" ELSE "zoom", sfxKey |-> "swoosh"]
  ELSE IF fromLayout \in {"B", "C"} /\ toLayout = "A"
  THEN [type |-> IF Above(drawn, 1, 2) THEN "slide-right" ELSE "fade", sfxKey |-> "swoosh"]
  ELSE IF fromLayout = "B" /\ toLayout = "C"
  THEN [type |-> "zoom", sfxKey |-> "impact"]
  ELSE [type |-> "fade", sfxKey |-> "swoosh"]

transitionChoice(fromLayout, toLayout, drawn) ==
  IF fromLayout = toLayout /\ toLayout = "A"
  THEN [type |-> IF Above(drawn, 2, 5) THEN "cut" ELSE "fade", sfxKey |-> "click"]
  ELSE IF fromLayout = "A" /\ toLayout \in {"B", "C"}
  THEN [type |-> IF Above(drawn, 1, 2) THEN "slide-left" ELSE "zoom", sfxKey |-> "swoosh"]
  ELSE IF fromLayout \in {"B", "C"} /\ toLayout = "A"
  THEN [type |-> IF Above(drawn, 1, 2) THEN "slide-right" ELSE "fade", sfxKey |-> "swoosh"]
  ELSE IF fromLayout = "B" /\ toLayout = "C"
  THEN [type |-> "zoom", sfxKey |-> "impact"]
  ELSE IF fromLayout = "C" /\ toLayout = "B"
  THEN [type |-> "fade", sfxKey |-> "swoosh"]
  ELSE [type |-> "cut", sfxKey |-> "click"]

decideTransition(fromLayout, toLayout, isFirstSegment, options, random) ==
  IF isFirstSegment
  THEN [type |-> "none", durationFrames |-> 0, sfxVolume |-> [num |-> 0, den |-> 1]]
  ELSE With(transitionChoice(fromLayout, toLayout, random.type), LAMBDA choice :
         [type           |-> choice.type,
          durationFrames |-> IF choice.type = "cut" THEN 0
                             ELSE options.transitionDurationFrames,
          sfxVolume      |-> [num |-> 6, den |-> 10]]
           @@ Optional("sfx",
                       /\ FractionLess(random.sfx, options.transitionSfxProbability)
                       /\ Has(options.sfxSources, choice.sfxKey),
                       options.sfxSources[choice.sfxKey]))

\* The end of the match of /\b(\d+\s+\w+(?:\s+\w+)?)\b/ at index a, 0 when
\* there is none.
DisplayNumberedMatchEnd(s, a) ==
  With(NumberedMatchEnd(s, a), LAMBDA e :
    IF e = 0 THEN 0
    ELSE With(RunEnd(s, e + 1, Whitespace), LAMBDA w :
         With(RunEnd(s, w + 1, WordChars), LAMBDA f :
           IF w > e /\ f > w THEN f ELSE e)))

\* The phrase in a list of its own, or the empty list for undefined.
\* text.match of the numbered pattern: the first match in a list of its own,
\* or the empty list.
firstDisplayNumbered(text) ==
  With({a \in 1..Len(text) : DisplayNumberedMatchEnd(text, a) > 0}, LAMBDA starts :
    IF starts = {} THEN <<>>
    ELSE With(CHOOSE a \in starts : \A b \in starts : a <= b, LAMBDA first :
           <<SubSeq(text, first, DisplayNumberedMatchEnd(text, first))>>))

\* The last two fallbacks of extractDisplayPhrase.
keywordDisplayPhrase(segment) ==
  IF Len(segment.keywords) >= 2
  THEN <<toUpperCase(join(SubSeq(segment.keywords, 1, Min(3, Len(segment.keywords))), " "))>>
  ELSE With(SelectSeq(segment.words, LAMBDA w : w.isKeyword), LAMBDA keywordWords :
         IF Len(keywordWords) >= 1
         THEN <<toUpperCase(join([i \in 1..Min(2, Len(keywordWords)) |-> keywordWords[i].text],
                                 " "))>>
         ELSE <<>>)

extractDisplayPhrase(segment) ==
  With(QuotedMatches(segment.text, 1), LAMBDA quoted :
    IF Len(quoted) > 0 THEN <<quoted[1]>>
    ELSE With(firstDisplayNumbered(segment.text), LAMBDA numbered :
           IF numbered # <<>> THEN numbered ELSE keywordDisplayPhrase(segment)))

\* decideTextOverlay with the overlay kept for key-phrase segments alone.
decideTextOverlayForKeyPhrasesOnly(segment, layout, assetMatch, options) ==
  IF layout # "A" \/ ~segment.hasKeyPhrase THEN None
  ELSE With(extractDisplayPhrase(segment), LAMBDA primaryText :
         IF primaryText = <<>> \/ primaryText[1] = "" THEN None
         ELSE [primary    |-> primaryText[1],
               style      |-> options.defaultTextOverlayStyle,
               animation  |-> IF segment.importance = "high" THEN "pop" ELSE "scale",
               startFrame |-> segment.startFrame + Round(2 * segment.durationFrames, 10),
               endFrame   |-> segment.startFrame + Round(8 * segment.durationFrames, 10)])

decideTextOverlay(segment, layout, assetMatch, options) ==
  IF layout # "A" THEN None
  ELSE IF ~segment.hasKeyPhrase /\ segment.importance # "high" THEN None
  ELSE With(extractDisplayPhrase(segment), LAMBDA primaryText :
         IF primaryText = <<>> \/ primaryText[1] = "" THEN None
         ELSE [primary    |-> primaryText[1],
               style      |-> options.defaultTextOverlayStyle,
               animation  |-> IF segment.importance = "high" THEN "pop" ELSE "scale",
               startFrame |-> segment.startFrame + Round(2 * segment.durationFrames, 10),
               endFrame   |-> segment.startFrame + Round(8 * segment.durationFrames, 10)])

\* random[i] holds the values Math.random() returns while segment i is
\* decided.
\* segmentAssetMap.get(segment.id)
matchOf(segment, segmentAssetMap) ==
  IF segment.id \in DOMAIN segmentAssetMap THEN segmentAssetMap[segment.id] ELSE None

\* The body of the loop of planLayouts for one segment, after decideLayout:
\* chosen is what decideLayout returned for it.
planDecision(segment, assetMatch, chosen, previousLayout, isFirstSegment, opts, random) ==
  With(decideTextOverlay(segment, chosen.layout, assetMatch, opts), LAMBDA textOverlay :
    [segmentId  |-> segment.id,
     layout     |-> chosen.layout,
     transition |-> decideTransition(previousLayout, chosen.layout, isFirstSegment,
                                     opts, random),
     reasoning  |-> chosen.reasoning]
      @@ Optional("helperAsset", IsDefined(assetMatch), assetMatch.asset)
      @@ Optional("textOverlay", IsDefined(textOverlay), textOverlay))

planLayouts(segments, assetMatches, options, random) ==
  With(options @@ PLANNER_DEFAULT_OPTIONS, LAMBDA opts :
  With(bestMatchPerSegment(assetMatches), LAMBDA segmentAssetMap :
  With(<<>> \o [i \in 1..Len(segments) |->
                  decideLayout(segments[i], matchOf(segments[i], segmentAssetMap))],
       LAMBDA layouts :
    <<>> \o
    [i \in 1..Len(segments) |->
       With(matchOf(segments[i], segmentAssetMap), LAMBDA assetMatch :
         planDecision(segments[i], assetMatch, layouts[i],
                      IF i = 1 THEN "A" ELSE layouts[i - 1].layout,
                      i = 1, opts, random[i]))])))

validateLayoutPlan(decisions, segments) ==
  With({decisions[d].segmentId : d \in 1..Len(decisions)}, LAMBDA decisionSegmentIds :
  With(SelectSeq(segments, LAMBDA s : s.id \notin decisionSegmentIds), LAMBDA missing :
  With(SelectSeq(decisions, LAMBDA d : d.layout \in {"B", "C"} /\ ~Has(d, "helperAsset")),
       LAMBDA helpless :
  With([i \in 1..Len(missing) |->
          "Missing layout decision for segment: " \o missing[i].id]
       \o [i \in 1..Len(helpless) |->
          "Layout " \o helpless[i].layout \o " requires helper asset for segment: "
            \o helpless[i].segmentId],
       LAMBDA errors :
    [valid |-> Len(errors) = 0, errors |-> errors]))))

(***************************************************************************)
(* processing/timelineBuilder                                              *)
(***************************************************************************)

\* DEFAULT_PROJECT_CONFIG, less its empty asset lists.
DEFAULT_PROJECT_CONFIG ==
  [fps |-> 30, width |-> 1080, height |-> 1920,
   settings |->
     [captionStyle |->
        [font |-> [family |-> "Inter", size |-> 48, weight |-> 700, color |-> "#FFFFFF",
                   shadow |-> "0 2px 8px rgba(0,0,0,0.8)"],
         highlightColor  |-> "#FFD700",
         backgroundColor |-> "rgba(0,0,0,0.6)",
         position        |-> "bottom",
         maxWidth        |-> 900]]]

\* The first clip that covers the segment, None when no clip does.
coveringClip(segment, clips) ==
  With({c \in 1..Len(clips) :
          /\ clips[c].originalStartFrame <= segment.startFrame
          /\ clips[c].originalEndFrame >= segment.endFrame},
       LAMBDA covering :
    IF covering = {} THEN None
    ELSE clips[CHOOSE c \in covering : \A d \in covering : c <= d])

\* Called with at least one clip; with none, reading the first clip's src
\* throws (see buildTimelineThrows).
\* The clip returned from inside the loop over several clips.
clipWithinCovering(segment, covering, outputStartFrame) ==
  With(segment.startFrame - covering.originalStartFrame, LAMBDA offsetInClip :
    [src                |-> covering.src,
     startFrame         |-> outputStartFrame,
     endFrame           |-> outputStartFrame + segment.durationFrames,
     originalStartFrame |-> covering.originalStartFrame + offsetInClip,
     originalEndFrame   |-> covering.originalStartFrame + offsetInClip
                              + segment.durationFrames,
     volume             |-> 1])

findAvatarClipForSegment(segment, avatar, outputStartFrame) ==
  With(coveringClip(segment, avatar.clips), LAMBDA covering :
    IF Len(avatar.clips) # 1 /\ IsDefined(covering)
    THEN clipWithinCovering(segment, covering, outputStartFrame)
    ELSE [src                |-> avatar.clips[1].src,
          startFrame         |-> outputStartFrame,
          endFrame           |-> outputStartFrame + segment.durationFrames,
          originalStartFrame |-> segment.startFrame,
          originalEndFrame   |-> segment.endFrame,
          volume             |-> 1])

\* Math.round(relative * timeScale), timeScale being
\* segmentDuration / Math.max(originalDuration, 1).
scaleToOutput(relative, segment) ==
  Round(relative * segment.durationFrames, Max(segment.endFrame - segment.startFrame, 1))

buildCaptionData(segment, outputStartFrame, config) ==
  [words |->
     <<>> \o
     [w \in 1..Len(segment.words) |->
        With(segment.words[w], LAMBDA word :
          [text       |-> word.text,
           startFrame |-> outputStartFrame
                            + scaleToOutput(word.startFrame - segment.startFrame, segment),
           endFrame   |-> outputStartFrame
                            + scaleToOutput(word.endFrame - segment.startFrame, segment)])],
   style |-> config.settings.captionStyle]

\* layoutMap.get(id): the last decision of the list for the segment, None
\* when there is none.
decisionFor(id, decisions) ==
  With({d \in 1..Len(decisions) : decisions[d].segmentId = id}, LAMBDA mine :
    IF mine = {} THEN None
    ELSE decisions[CHOOSE d \in mine : \A e \in mine : e <= d])

\* layoutBreakdown, transitionCount and captionWordCount of getTimelineStats;
\* totalDuration is the seconds to two decimals, for a total that is not
\* negative.
\* items.filter((i) => i.layout === layout).length
layoutCount(items, layout) == Cardinality({i \in 1..Len(items) : items[i].layout = layout})

getTimelineStats(tl, fps) ==
  With(tl.items, LAMBDA items :
    [totalDuration    |-> toFixed2([num |-> tl.totalDurationFrames, den |-> fps]) \o "s",
     itemCount        |-> Len(items),
     layoutBreakdown  |-> [A |-> layoutCount(items, "A"), B |-> layoutCount(items, "B"),
                           C |-> layoutCount(items, "C")],
     transitionCount  |-> Cardinality({i \in 1..Len(items) :
                                         items[i].transition.type # "none"}),
     captionWordCount |-> SumSeq([i \in 1..Len(items) |-> Len(items[i].caption.words)])])

restartOutputFrame(currentOutputFrame, itemDuration) == itemDuration

\* currentOutputFrame += itemDuration
nextOutputFrame(currentOutputFrame, itemDuration) == currentOutputFrame + itemDuration

\* A segment with a decision and no avatar clip at all: clips[0].src throws.
buildTimelineThrows(input) ==
  /\ Len(input.processedAvatar.clips) = 0
  /\ \E i \in 1..Len(input.parsedScript.segments) :
       IsDefined(decisionFor(input.parsedScript.segments[i].id, input.layoutDecisions))

\* The TimelineItem pushed for segment i.
timelineItem(i, segment, decision, avatarClip, itemDuration, start, config) ==
  [id             |-> "item-" \o numberToString(i),
   segmentId      |-> segment.id,
   startFrame     |-> start,
   endFrame       |-> start + itemDuration,
   durationFrames |-> itemDuration,
   layout         |-> decision.layout,
   avatarClip     |-> avatarClip,
   caption        |-> buildCaptionData(segment, start, config),
   transition     |-> decision.transition]
    @@ Optional("helperAsset", Has(decision, "helperAsset"), decision.helperAsset)
    @@ Optional("textOverlay", Has(decision, "textOverlay"),
                [decision.textOverlay EXCEPT
                   !.startFrame = @ - segment.startFrame + start,
                   !.endFrame   = @ - segment.startFrame + start])

\* One pass of the loop of buildTimeline, for segment i.
addTimelineItem(st, i, segment, decision, avatar, config) ==
  IF ~IsDefined(decision) THEN st
  ELSE With(findAvatarClipForSegment(segment, avatar, st.currentOutputFrame),
            LAMBDA avatarClip :
       With(avatarClip.endFrame - avatarClip.startFrame, LAMBDA itemDuration :
         [items |-> Append(st.items,
                      timelineItem(i, segment, decision, avatarClip, itemDuration,
                                   st.currentOutputFrame, config)),
          currentOutputFrame |-> nextOutputFrame(st.currentOutputFrame, itemDuration)]))

buildTimeline(input, options) ==
  With(input.parsedScript.segments, LAMBDA segments :
    LET F[i \in 0..Len(segments)] ==
          IF i = 0 THEN [items |-> <<>>, currentOutputFrame |-> 0]
          ELSE With(F[i - 1], LAMBDA st :
               With(segments[i], LAMBDA segment :
               With(decisionFor(segment.id, input.layoutDecisions), LAMBDA decision :
                 addTimelineItem(st, i, segment, decision, input.processedAvatar,
                                 options.config))))
    IN  With(F[Len(segments)], LAMBDA end :
          [totalDurationFrames |-> end.currentOutputFrame, items |-> end.items]))

\* list[1] \o ... \o list[Len(list)]
Flatten(list) == ConcatOver(Len(list), LAMBDA i : list[i], <<>>)

neighbourWarningsOfGapsOnly(prev, curr) ==
  IF curr.startFrame > prev.endFrame
  THEN <<"Gap between items " \o prev.id \o " and " \o curr.id
           \o " (" \o numberToString(curr.startFrame - prev.endFrame) \o " frames)">>
  ELSE <<>>

\* The warning of the loop over neighbouring items, in a list of its own, or
\* the empty list.
neighbourWarnings(prev, curr) ==
  IF curr.startFrame < prev.endFrame
  THEN <<"Overlap between items " \o prev.id \o " and " \o curr.id
           \o " (" \o numberToString(prev.endFrame - curr.startFrame) \o " frames)">>
  ELSE IF curr.startFrame > prev.endFrame
  THEN <<"Gap between items " \o prev.id \o " and " \o curr.id
           \o " (" \o numberToString(curr.startFrame - prev.endFrame) \o " frames)">>
  ELSE <<>>

\* The errors the loop over the items pushes for one item.
itemErrors(item) ==
  (IF item.durationFrames <= 0
   THEN <<"Item " \o item.id \o " has zero or negative duration">> ELSE <<>>)
  \o (IF item.avatarClip.src = ""
      THEN <<"Item " \o item.id \o " has no avatar source">> ELSE <<>>)

itemWarningsAnyLayout(item) ==
  IF ~Has(item, "helperAsset")
  THEN <<"Item " \o item.id \o " uses layout " \o item.layout \o " but has no helper asset">>
  ELSE <<>>

\* The warnings the loop over the items pushes for one item.
itemWarnings(item) ==
  IF item.layout \in {"B", "C"} /\ ~Has(item, "helperAsset")
  THEN <<"Item " \o item.id \o " uses layout " \o item.layout \o " but has no helper asset">>
  ELSE <<>>

validateTimeline(tl) ==
  With(tl.items, LAMBDA items :
  With((IF Len(items) = 0 THEN <<"Timeline has no items">> ELSE <<>>)
       \o (IF tl.totalDurationFrames <= 0
           THEN <<"Timeline has zero or negative duration">> ELSE <<>>)
       \o Flatten([i \in 1..Len(items) |-> itemErrors(items[i])]),
       LAMBDA errors :
    [valid    |-> Len(errors) = 0,
     errors   |-> errors,
     warnings |-> Flatten([i \in 1..Max(Len(items) - 1, 0) |->
                             neighbourWarnings(items[i], items[i + 1])])
                  \o Flatten([i \in 1..Len(items) |-> itemWarnings(items[i])])]))

(***************************************************************************)
(* processing/pipeline                                                     *)
(***************************************************************************)

\* Steps 1 to 3 of runPipeline: parse the script, wrap the avatar, make and
\* match the helper assets.
\* createHelperAssetFromPath over helperVideoPaths, then over helperImagePaths.
pipelineAssets(input) ==
  [i \in 1..Len(input.helperVideoPaths) |->
     createHelperAssetFromPath(input.helperVideoPaths[i], "video")]
  \o [i \in 1..Len(input.helperImagePaths) |->
     createHelperAssetFromPath(input.helperImagePaths[i], "image")]

pipelineFront(input) ==
  With(secondsToFrames(input.avatarDurationSeconds, input.config.fps),
       LAMBDA avatarDurationFrames :
  With(parseScript(input.scriptText,
         [fps |-> input.config.fps, totalDurationFrames |-> avatarDurationFrames,
          minSegmentWords |-> 5, maxSegmentWords |-> 15]),
       LAMBDA parsed :
    [parsedScript     |-> parsed,
     processedAvatar  |-> processAvatarWithoutTrimming(input.avatarSrc, avatarDurationFrames),
     assetMatchResult |-> matchAssetsToSegments(parsed.segments, pipelineAssets(input), None)]))

\* Steps 4 and 5 of runPipeline: plan the layouts, build, validate and count.
\* With the one clip of processAvatarWithoutTrimming buildTimeline does not
\* throw.
pipelineBack(input, front, random) ==
  With(planLayouts(front.parsedScript.segments, front.assetMatchResult.matches,
                   [fps |-> input.config.fps, sfxSources |-> input.sfxPaths], random),
       LAMBDA decisions :
  With(buildTimeline([parsedScript    |-> front.parsedScript,
                      processedAvatar |-> front.processedAvatar,
                      layoutDecisions |-> decisions],
                     [config |-> input.config]),
       LAMBDA built :
    [timeline        |-> built,
     parsedScript    |-> front.parsedScript,
     processedAvatar |-> front.processedAvatar,
     layoutDecisions |-> decisions,
     stats           |-> getTimelineStats(built, input.config.fps),
     validation      |-> validateTimeline(built)]))

\* random[i] holds what Math.random() returns while segment i is planned.
runPipeline(input, random) == pipelineBack(input, pipelineFront(input), random)

\* The helper asset of an entry of the decisions record: the asset the entry
\* refers to, undefined for an entry that refers to none.
createHelperAssetFromDecision(decision) ==
  IF Has(decision, "asset") THEN createHelperAssetFromPath(decision.asset, "video")
  ELSE None

\* decisions.segments.find(d => d.id === id), in a list of its own, or the
\* empty list for undefined.
findDecision(id, entries) ==
  With({k \in 1..Len(entries) : entries[k].id = id}, LAMBDA mine :
    IF mine = {} THEN <<>>
    ELSE <<entries[CHOOSE k \in mine : \A j \in mine : k <= j]>>)

\* The LayoutDecision made from the entry of a segment.
decisionFromEntry(segment, decision, sfxPaths) ==
  With(createHelperAssetFromDecision(decision), LAMBDA helperAsset :
    [segmentId  |-> segment.id,
     layout     |-> decision.layout,
     transition |->
       [type           |-> decision.transition,
        durationFrames |-> decision.transitionDuration,
        sfxVolume      |-> [num |-> 3, den |-> 10]]
         @@ Optional("sfx",
                     decision.transition \notin {"cut", "none"} /\ Has(sfxPaths, "swoosh"),
                     sfxPaths.swoosh),
     reasoning  |-> decision.reasoning]
      @@ Optional("helperAsset", IsDefined(helperAsset), helperAsset))

fallbackDecisionWithCut(segment) ==
  [segmentId  |-> segment.id,
   layout     |-> "A",
   transition |-> [type |-> "cut", durationFrames |-> 0,
                   sfxVolume |-> [num |-> 3, den |-> 10]],
   reasoning  |-> "Default fallback - no decision in JSON"]

\* The LayoutDecision of a segment without an entry.
fallbackDecision(segment) ==
  [segmentId  |-> segment.id,
   layout     |-> "A",
   transition |-> [type |-> "fade", durationFrames |-> 8,
                   sfxVolume |-> [num |-> 3, den |-> 10]],
   reasoning  |-> "Default fallback - no decision in JSON"]

\* parsedScript.segments.map(...) of runPipelineWithDecisions.
decisionsFromRecord(segments, decisions, sfxPaths) ==
  <<>> \o
  [i \in 1..Len(segments) |->
     With(findDecision(segments[i].id, decisions.segments), LAMBDA found :
       IF found # <<>> THEN decisionFromEntry(segments[i], found[1], sfxPaths)
       ELSE fallbackDecision(segments[i]))]

\* decisions is what loadEditingDecisions returns. With the one clip of
\* processAvatarWithoutTrimming buildTimeline does not throw.
runPipelineWithDecisions(input, decisions) ==
  With(secondsToFrames(input.avatarDurationSeconds, input.config.fps),
       LAMBDA avatarDurationFrames :
  With(parseScript(input.scriptText,
         [fps |-> input.config.fps, totalDurationFrames |-> avatarDurationFrames,
          minSegmentWords |-> 5, maxSegmentWords |-> 15]),
       LAMBDA parsed :
  With(processAvatarWithoutTrimming(input.avatarSrc, avatarDurationFrames),
       LAMBDA avatar :
  With(decisionsFromRecord(parsed.segments, decisions, input.sfxPaths),
       LAMBDA decided :
  With(buildTimeline([parsedScript |-> parsed, processedAvatar |-> avatar,
                      layoutDecisions |-> decided],
                     [config |-> input.config]),
       LAMBDA built :
    [timeline        |-> built,
     parsedScript    |-> parsed,
     processedAvatar |-> avatar,
     layoutDecisions |-> decided,
     stats           |-> getTimelineStats(built, input.config.fps),
     validation      |-> validateTimeline(built)])))))

(***************************************************************************)
(* State                                                                   *)
(***************************************************************************)

VARIABLES
  pc,              \* the step the program is at
  words,           \* distributeFramesAcrossWords: the word list handed in
  totalFrames,     \* distributeFramesAcrossWords: the frame count handed in
  wordTimings,     \* distributeFramesAcrossWords: the spans returned
  scriptText,      \* the script handed to parseScript
  parserOptions,   \* the ParserOptions handed to parseScript
  parsedScript,    \* the ParsedScript of the last parseScript or realignSegmentTimings
  actualTotalFrames,    \* the frame count handed to the last realignSegmentTimings
  silenceInput,         \* the SilenceDetectionInput handed to processAvatarWithSilences
  detectorOptions,      \* the options handed to processAvatarWithSilences
  avatarDurationFrames, \* the frame count handed to processAvatarWithoutTrimming
  processedAvatar,      \* the ProcessedAvatar returned
  heap,                 \* the AvatarClip objects there are: a reference is a position here
  clipList,             \* the array handed to mergeCloseClips, as references
  minGapFrames,         \* the tolerance handed to mergeCloseClips in a list, None when left out
  mergedClips,          \* what mergeCloseClips returned
  helperAssets,         \* the HelperAsset list handed to matchAssetsToSegments
  matcherOptions,       \* the options handed to matchAssetsToSegments
  assetMatchResult,     \* the AssetMatchResult returned
  plannerOptions,       \* the options handed to planLayouts
  layoutDecisions,      \* the LayoutDecision list returned
  timeline,             \* what buildTimeline returned, or the Timeline handed to validateTimeline
  validation,           \* what validateTimeline returned
  pipelineInput,        \* the PipelineInput handed to runPipeline
  pipelineResults,      \* the PipelineResult of every run so far
  editingDecisions      \* what loadEditingDecisions returns to runPipelineWithDecisions

timingVars == <<words, totalFrames, wordTimings>>

parserVars == <<scriptText, parserOptions, parsedScript, actualTotalFrames>>

mergerVars == <<heap, clipList, minGapFrames, mergedClips>>

clipVars == <<silenceInput, detectorOptions, avatarDurationFrames, processedAvatar, mergerVars>>

matcherVars == <<helperAssets, matcherOptions, assetMatchResult>>

plannerVars == <<plannerOptions, layoutDecisions>>

timelineVars == <<timeline, validation>>

pipelineVars == <<pipelineInput, pipelineResults, editingDecisions>>

vars == <<pc, timingVars, parserVars, clipVars, matcherVars, plannerVars, timelineVars,
          pipelineVars>>

(***************************************************************************)
(* Bounds of the checked instances                                         *)
(***************************************************************************)

MaxWords == 3

MaxFrames == 6

MaxSentences == 3

\* The <<minSegmentWords, maxSegmentWords>> pairs tried; the last is the pair
\* the pipeline passes.
SegmentLimits == {<<1, 1>>, <<2, 3>>, <<3, 4>>, <<3, 8>>, <<5, 15>>}

Fps == DEFAULT_PROJECT_CONFIG.fps

\* Silence times are quarters of a second, up to MaxTicks of them.
MaxTicks == 3

\* Clip lists handed to mergeCloseClips: up to MaxClips clips, up to MaxGap
\* frames of the original cut out ahead of each.
MaxClips == 3

MaxGap == 2

MaxSilences == 2

AvatarSrc == "avatar.mp4"

Ticks(t) == [num |-> t, den |-> 4]

\* Every range of two tick times, the backwards and the empty ones too.
SilenceUniverse ==
  {[startSeconds |-> Ticks(a), endSeconds |-> Ticks(b)] : a, b \in 0..MaxTicks}

\* The thresholds and the shortest clips tried when the options name them.
ThresholdUniverse == {Ticks(0), DETECTOR_DEFAULT_OPTIONS.silenceThresholdSeconds}

MinClipUniverse == {Ticks(0), Ticks(1)}

MaxAssets == 2

MaxAssetsPerSegment == 2

\* The options parseScript is given ahead of the matcher, the planner and the
\* timeline builder: short segments, so that short scripts have several.
EditorParserOptions == [fps |-> Fps, minSegmentWords |-> 2, maxSegmentWords |-> 4]

\* Scripts of no, one, two and three segments; segments that match no asset,
\* one asset and two assets; a segment whose four keywords all contain "cart".
EditorScripts ==
  {"",
   "We make 3 simple tables.",
   "Introducing Widget X. Buy it now.",
   "Carts Carton Cartoon Cart. Buy Widget X now.",
   "Buy Widget X now. Introducing Widget X. Go.",
   "Al Bo."}

\* Helper files, as createHelperAssetFromPath reads them.
AssetUniverse ==
  {createHelperAssetFromPath("assets/cart-cart-cart-cart.png", "image"),
   createHelperAssetFromPath("widget.mp4", "video"),
   createHelperAssetFromPath("buy-now.mp4", "video")}

\* No option given, or maxAssetsPerSegment and allowAssetReuse given and
\* minRelevanceScore either left at its default or set to 0.
MatcherOptionsUniverse ==
  {None} \cup
  {[maxAssetsPerSegment |-> m, allowAssetReuse |-> r]
     @@ Optional("minRelevanceScore", z, [num |-> 0, den |-> 1]) :
     m \in 1..MaxAssetsPerSegment, r \in BOOLEAN, z \in BOOLEAN}

\* What Math.random() may return where the transition type is drawn (at most
\* 0.4, between 0.4 and 0.5, above 0.5) and where the sound is drawn (below
\* 0.7 or not).
TypeDraws == {[num |-> 1, den |-> 4], [num |-> 9, den |-> 20], [num |-> 3, den |-> 4]}

SfxDraws == {[num |-> 1, den |-> 4], [num |-> 3, den |-> 4]}

\* The draws of one planLayouts over n segments: none for the first segment.
RandomDraws(n) == [2..n -> [type : TypeDraws, sfx : SfxDraws]]

SfxSourcesUniverse == {None, [click |-> "click.mp3", swoosh |-> "swoosh.mp3"]}

\* Scripts handed to the timeline builder: the editor's, and one whose last
\* segment is one word after two of five.
TimelineScripts ==
  EditorScripts \cup {"We make 3 simple tables. We make 3 simple tables. Go."}

\* Silence lists that leave two clips, one clip and no clip of one second of
\* video when a clip has to last a quarter of a second.
TimelineSilenceInputs ==
  {[silences |-> <<[startSeconds |-> Ticks(2), endSeconds |-> Ticks(2)]>>,
    totalDurationSeconds |-> Ticks(4)],
   [silences |-> <<[startSeconds |-> Ticks(0), endSeconds |-> Ticks(2)]>>,
    totalDurationSeconds |-> Ticks(4)],
   [silences |-> <<[startSeconds |-> Ticks(0), endSeconds |-> Ticks(4)]>>,
    totalDurationSeconds |-> Ticks(4)]}

\* The frame counts the scripts are timed for ahead of the timeline builder:
\* the short ones, and the length of the video of TimelineSilenceInputs.
TimelineTotals ==
  (0..MaxFrames) \cup
  {secondsToFrames(input.totalDurationSeconds, Fps) : input \in TimelineSilenceInputs}

\* Scripts that runPipeline cuts into no, one, two and three segments: a
\* sentence of more than 15 words is a segment of its own. The second is
\* blanks only.
PipelineScripts ==
  {"",
   " \n\t ",
   "Buy it now.",
   "Introducing Widget X. We make one and two and three and four and five and six and seven simple tables.",
   "Introducing Widget X. We make one and two and three and four and five and six and seven simple tables. Buy it now."}

PipelineVideoPaths == {<<>>, <<"widget.mp4">>, <<"widget.mp4", "buy-now.mp4">>}

\* One silence from 2.0 s to 3.0 s in 10 s of video.
ScenarioSilenceInput ==
  [silences |-> <<[startSeconds |-> Ticks(8), endSeconds |-> Ticks(12)]>>,
   totalDurationSeconds |-> Ticks(40)]

\* Words of one, one, two and four syllables.
WordUniverse == {"it", "X.", "table", "Introducing"}

\* Sentences of one, three and five words.
SentenceUniverse == {"Go.", "Buy it now.", "We make 3 simple tables."}

SeqsUpTo(S, n) == UNION {[1..k -> S] : k \in 0..n}

\* Three sentences of three words: a launch, a price, a call to action.
ScenarioScript == "Introducing Widget X. It costs $20. Buy it now."

\* The scripts: up to MaxSentences sentences, a space between them, and the
\* scenario's script.
ScriptUniverse ==
  {join(q, " ") : q \in SeqsUpTo(SentenceUniverse, MaxSentences)} \cup {ScenarioScript}

\* The variables of a component that takes no part in a specification.
IdleTiming == words = None /\ totalFrames = 0 /\ wordTimings = None

IdleParser ==
  /\ scriptText = "" /\ parserOptions = None /\ parsedScript = None
  /\ actualTotalFrames = 0

IdleMerger == heap = <<>> /\ clipList = <<>> /\ minGapFrames = None /\ mergedClips = None

IdleClips ==
  /\ silenceInput = None /\ detectorOptions = None /\ avatarDurationFrames = 0
  /\ processedAvatar = None
  /\ IdleMerger

IdleMatcher == helperAssets = None /\ matcherOptions = None /\ assetMatchResult = None

IdlePlanner == plannerOptions = None /\ layoutDecisions = None

IdleTimeline == timeline = None /\ validation = None

IdlePipeline ==
  pipelineInput = None /\ pipelineResults = <<>> /\ editingDecisions = None

(***************************************************************************)
(* distributeFramesAcrossWords on its own                                  *)
(***************************************************************************)

InitWords ==
  /\ pc = "distribute"
  /\ words \in SeqsUpTo(WordUniverse, MaxWords)
  /\ totalFrames \in (-1)..MaxFrames
  /\ wordTimings = None
  /\ IdleParser /\ IdleClips /\ IdleMatcher /\ IdlePlanner /\ IdleTimeline /\ IdlePipeline

Distribute ==
  /\ pc = "distribute"
  /\ wordTimings' = distributeFramesAcrossWords(words, totalFrames, Fps)
  /\ pc' = "distributed"
  /\ UNCHANGED <<words, totalFrames, parserVars, clipVars, matcherVars, plannerVars,
                 timelineVars, pipelineVars>>

NextWords == Distribute

SpecWords == InitWords /\ [][NextWords]_vars

(***************************************************************************)
(* The script segmenter: parseScript, then realignSegmentTimings           *)
(***************************************************************************)

InitSegmenter ==
  /\ pc = "parse"
  /\ scriptText \in ScriptUniverse
  /\ \E limits \in SegmentLimits, given \in BOOLEAN, total \in {0, 1, MaxFrames} :
       /\ given \/ total = 0
       /\ parserOptions = [fps |-> Fps, minSegmentWords |-> limits[1],
                           maxSegmentWords |-> limits[2]]
                            @@ Optional("totalDurationFrames", given, total)
  /\ parsedScript = None
  /\ actualTotalFrames = 0
  /\ IdleTiming /\ IdleClips /\ IdleMatcher /\ IdlePlanner /\ IdleTimeline /\ IdlePipeline

ParseScript ==
  /\ pc = "parse"
  /\ parsedScript' = parseScript(scriptText, parserOptions)
  /\ pc' = "parsed"
  /\ UNCHANGED <<scriptText, parserOptions, actualTotalFrames, timingVars, clipVars,
                 matcherVars, plannerVars, timelineVars, pipelineVars>>

Realign ==
  /\ pc = "parsed"
  /\ \E total \in 0..MaxFrames :
       /\ actualTotalFrames' = total
       /\ parsedScript' = realignSegmentTimings(parsedScript, total, parserOptions.fps)
  /\ pc' = "realigned"
  /\ UNCHANGED <<scriptText, parserOptions, timingVars, clipVars, matcherVars, plannerVars,
                 timelineVars, pipelineVars>>

NextSegmenter == ParseScript \/ Realign

SpecSegmenter == InitSegmenter /\ [][NextSegmenter]_vars

(***************************************************************************)
(* The clip generator: processAvatarWithSilences or, with no silence list, *)
(* processAvatarWithoutTrimming                                            *)
(***************************************************************************)

InitClips ==
  /\ \/ /\ pc = "trim"
        /\ \/ \E silences \in SeqsUpTo(SilenceUniverse, MaxSilences), total \in 0..(MaxTicks + 1) :
                silenceInput = [silences |-> silences, totalDurationSeconds |-> Ticks(total)]
           \/ silenceInput = ScenarioSilenceInput
        /\ \/ detectorOptions = [fps |-> Fps]
           \/ \E threshold \in ThresholdUniverse, minClip \in MinClipUniverse :
                detectorOptions = [fps |-> Fps, silenceThresholdSeconds |-> threshold,
                                   minClipDurationSeconds |-> minClip]
        /\ avatarDurationFrames = 0
     \/ /\ pc = "keep"
        /\ silenceInput = None /\ detectorOptions = None
        /\ avatarDurationFrames \in 0..MaxFrames
  /\ processedAvatar = None
  /\ IdleMerger
  /\ IdleTiming /\ IdleParser /\ IdleMatcher /\ IdlePlanner /\ IdleTimeline /\ IdlePipeline

ProcessAvatarWithSilences ==
  /\ pc = "trim"
  /\ processedAvatar' = processAvatarWithSilences(AvatarSrc, silenceInput, detectorOptions)
  /\ pc' = "trimmed"
  /\ UNCHANGED <<silenceInput, detectorOptions, avatarDurationFrames, mergerVars, timingVars, parserVars,
                 matcherVars, plannerVars, timelineVars, pipelineVars>>

ProcessAvatarWithoutTrimming ==
  /\ pc = "keep"
  /\ processedAvatar' = processAvatarWithoutTrimming(AvatarSrc, avatarDurationFrames)
  /\ pc' = "kept"
  /\ UNCHANGED <<silenceInput, detectorOptions, avatarDurationFrames, mergerVars, timingVars, parserVars,
                 matcherVars, plannerVars, timelineVars, pipelineVars>>

NextClips == ProcessAvatarWithSilences \/ ProcessAvatarWithoutTrimming

SpecClips == InitClips /\ [][NextClips]_vars

(***************************************************************************)
(* The merge pass, called on a clip list as the clip generator makes them  *)
(***************************************************************************)

\* The lengths of the clips.
ClipLengths == {1, 2}

\* The clip list of spans, each the <<frames cut out ahead, length>> of a
\* clip: original ranges in order and apart by the frames cut out, output
\* ranges one after the other from 0.
clipsOfSpans(spans) ==
  LET F[i \in 0..Len(spans)] ==
        IF i = 0 THEN [clips |-> <<>>, currentFrame |-> 0, outputFrame |-> 0]
        ELSE With(F[i - 1], LAMBDA st :
               [clips |-> Append(st.clips,
                            [src                |-> AvatarSrc,
                             startFrame         |-> st.outputFrame,
                             endFrame           |-> st.outputFrame + spans[i][2],
                             originalStartFrame |-> st.currentFrame + spans[i][1],
                             originalEndFrame   |-> st.currentFrame + spans[i][1] + spans[i][2],
                             volume             |-> 1]),
                currentFrame |-> st.currentFrame + spans[i][1] + spans[i][2],
                outputFrame  |-> st.outputFrame + spans[i][2]])
  IN  F[Len(spans)].clips

InitMerger ==
  /\ pc = "merge"
  /\ \E spans \in SeqsUpTo((0..MaxGap) \X ClipLengths, MaxClips) :
       /\ heap = clipsOfSpans(spans)
       /\ clipList = <<>> \o [i \in 1..Len(spans) |-> i]
  /\ minGapFrames \in {None} \cup {<<gap>> : gap \in 0..(MaxGap - 1)}
  /\ mergedClips = None
  /\ silenceInput = None /\ detectorOptions = None /\ avatarDurationFrames = 0
  /\ processedAvatar = None
  /\ IdleTiming /\ IdleParser /\ IdleMatcher /\ IdlePlanner /\ IdleTimeline /\ IdlePipeline

\* The call, and a second call on what the first returned.
MergeCloseClips ==
  /\ pc \in {"merge", "merged"}
  /\ \E result \in {mergeCloseClips(heap, IF pc = "merge" THEN clipList
                                         ELSE mergedClips.merged, minGapFrames)} :
       /\ heap' = result.objects
       /\ mergedClips' = [merged |-> result.merged, sameArray |-> result.sameArray]
  /\ pc' = IF pc = "merge" THEN "merged" ELSE "merged again"
  /\ UNCHANGED <<clipList, minGapFrames, silenceInput, detectorOptions, avatarDurationFrames,
                 processedAvatar, timingVars, parserVars, matcherVars, plannerVars,
                 timelineVars, pipelineVars>>

NextMerger == MergeCloseClips

SpecMerger == InitMerger /\ [][NextMerger]_vars

(***************************************************************************)
(* The asset matcher, called on the segments of a parsed script            *)
(***************************************************************************)

InitMatcher ==
  /\ pc = "match"
  /\ scriptText \in EditorScripts
  /\ parserOptions = EditorParserOptions
  /\ parsedScript = parseScript(scriptText, parserOptions)
  /\ actualTotalFrames = 0
  /\ helperAssets \in SeqsUpTo(AssetUniverse, MaxAssets)
  /\ matcherOptions \in MatcherOptionsUniverse
  /\ assetMatchResult = None
  /\ IdleTiming /\ IdleClips /\ IdlePlanner /\ IdleTimeline /\ IdlePipeline

MatchAssetsToSegments ==
  /\ pc = "match"
  /\ assetMatchResult' =
       matchAssetsToSegments(parsedScript.segments, helperAssets, matcherOptions)
  /\ pc' = "matched"
  /\ UNCHANGED <<helperAssets, matcherOptions, timingVars, parserVars, clipVars, plannerVars,
                 timelineVars, pipelineVars>>

NextMatcher == MatchAssetsToSegments

SpecMatcher == InitMatcher /\ [][NextMatcher]_vars

(***************************************************************************)
(* The layout planner, called on the segments and the matches made         *)
(***************************************************************************)

\* Scripts handed to the planner: the editor's, and one with two segments
\* of medium importance after one of high importance, which the asset
\* "widget" matches and the asset "buy-now" does not.
PlannerScripts ==
  EditorScripts \cup {"Buy it now. Widget works well. Widget wins big."}

InitPlanner ==
  /\ pc = "plan"
  /\ scriptText \in PlannerScripts
  /\ parserOptions = EditorParserOptions
  /\ parsedScript = parseScript(scriptText, parserOptions)
  /\ actualTotalFrames = 0
  /\ helperAssets \in SeqsUpTo(AssetUniverse, MaxAssets)
  /\ matcherOptions \in {None, [maxAssetsPerSegment |-> MaxAssetsPerSegment]}
  /\ assetMatchResult =
       matchAssetsToSegments(parsedScript.segments, helperAssets, matcherOptions)
  /\ \E sfxSources \in SfxSourcesUniverse, configured \in BOOLEAN :
       plannerOptions = [fps |-> Fps, sfxSources |-> sfxSources]
                          @@ Optional("transitionDurationFrames", configured, 12)
  /\ layoutDecisions = None
  /\ IdleTiming /\ IdleClips /\ IdleTimeline /\ IdlePipeline

PlanLayouts ==
  /\ pc = "plan"
  /\ \E random \in RandomDraws(Len(parsedScript.segments)) :
       layoutDecisions' =
         planLayouts(parsedScript.segments, assetMatchResult.matches, plannerOptions, random)
  /\ pc' = "planned"
  /\ UNCHANGED <<plannerOptions, timingVars, parserVars, clipVars, matcherVars, timelineVars,
                 pipelineVars>>

NextPlanner == PlanLayouts

SpecPlanner == InitPlanner /\ [][NextPlanner]_vars

(***************************************************************************)
(* The timeline builder, called on a parsed script, a processed avatar and *)
(* layout decisions for some or all of the segments                        *)
(***************************************************************************)

\* The entries of list at the positions in kept, in order.
Selected(list, kept) ==
  LET F[i \in 0..Len(list)] ==
        IF i = 0 THEN <<>>
        ELSE LET done == F[i - 1]
             IN  IF i \in kept THEN Append(done, list[i]) ELSE done
  IN  F[Len(list)]

InitTimeline ==
  /\ pc = "build"
  /\ scriptText \in TimelineScripts
  /\ \E given \in BOOLEAN, total \in TimelineTotals :
       /\ given \/ total = 0
       /\ parserOptions = EditorParserOptions @@ Optional("totalDurationFrames", given, total)
  /\ parsedScript = parseScript(scriptText, parserOptions)
  /\ actualTotalFrames = 0
  /\ \/ /\ silenceInput = None /\ detectorOptions = None
        /\ avatarDurationFrames = parsedScript.totalEstimatedFrames
        /\ processedAvatar = processAvatarWithoutTrimming(AvatarSrc, avatarDurationFrames)
     \/ /\ silenceInput \in TimelineSilenceInputs
        /\ detectorOptions = [fps |-> Fps, silenceThresholdSeconds |-> Ticks(0),
                              minClipDurationSeconds |-> Ticks(1)]
        /\ avatarDurationFrames = 0
        /\ processedAvatar = processAvatarWithSilences(AvatarSrc, silenceInput, detectorOptions)
  /\ IdleMerger
  /\ helperAssets = None /\ matcherOptions = None
  /\ assetMatchResult = matchAssetsToSegments(parsedScript.segments, helperAssets, matcherOptions)
  /\ plannerOptions = [fps |-> Fps]
  /\ \E kept \in SUBSET (1..Len(parsedScript.segments)) :
       layoutDecisions =
         Selected(planLayouts(parsedScript.segments, assetMatchResult.matches, plannerOptions,
                          [i \in 2..Len(parsedScript.segments) |->
                             [type |-> [num |-> 3, den |-> 4], sfx |-> [num |-> 3, den |-> 4]]]),
                  kept)
  /\ timeline = None
  /\ validation = None
  /\ IdleTiming /\ IdlePipeline

BuildTimeline ==
  /\ pc = "build"
  /\ LET input == [parsedScript |-> parsedScript, processedAvatar |-> processedAvatar,
                   layoutDecisions |-> layoutDecisions]
     IN  IF buildTimelineThrows(input)
         THEN pc' = "threw" /\ timeline' = None
         ELSE /\ pc' = "built"
              /\ timeline' = buildTimeline(input, [config |-> DEFAULT_PROJECT_CONFIG])
  /\ UNCHANGED <<validation, timingVars, parserVars, clipVars, matcherVars, plannerVars,
                 pipelineVars>>

NextTimeline == BuildTimeline

SpecTimeline == InitTimeline /\ [][NextTimeline]_vars

(***************************************************************************)
(* validateTimeline, called on any Timeline                                *)
(***************************************************************************)

\* What validateTimeline reads of the items at one position: frames that
\* agree or not, a source or none, a layout with or without helper asset.
ItemUniverse(id) ==
  {[id |-> id, startFrame |-> span[1], endFrame |-> span[2], durationFrames |-> span[3],
    layout |-> look[1], avatarClip |-> [src |-> src]]
     @@ Optional("helperAsset", look[2], createHelperAssetFromPath("widget.mp4", "video")) :
     span \in {<<0, 2, 2>>, <<2, 3, 1>>, <<2, 2, 0>>, <<3, 2, -1>>},
     src \in {"", AvatarSrc},
     look \in {<<"A", FALSE>>, <<"B", TRUE>>, <<"B", FALSE>>, <<"C", FALSE>>}}

\* Timelines of no item, one item and two items; totals of no frame, fewer
\* and more.
TimelineUniverse ==
  {[totalDurationFrames |-> total, items |-> items] :
     total \in {-1, 0, 3},
     items \in {<<>>} \cup {<<a>> : a \in ItemUniverse("item-1")}
                 \cup {<<a, b>> : a \in ItemUniverse("item-1"), b \in ItemUniverse("item-2")}}

InitValidator ==
  /\ pc = "validate"
  /\ timeline \in TimelineUniverse
  /\ validation = None
  /\ IdleTiming /\ IdleParser /\ IdleClips /\ IdleMatcher /\ IdlePlanner /\ IdlePipeline

ValidateTimeline ==
  /\ pc = "validate"
  /\ validation' = validateTimeline(timeline)
  /\ pc' = "validated"
  /\ UNCHANGED <<timeline, timingVars, parserVars, clipVars, matcherVars, plannerVars,
                 pipelineVars>>

NextValidator == ValidateTimeline

SpecValidator == InitValidator /\ [][NextValidator]_vars

(***************************************************************************)
(* The pipeline on decisions made elsewhere: runPipelineWithDecisions      *)
(***************************************************************************)

\* Entries of a decisions record: for the first two segments and for a
\* segment no script has; with and without an asset; two transitions.
EntryUniverse ==
  {[id |-> id, layout |-> look[1], transition |-> change[1],
    transitionDuration |-> change[2], reasoning |-> "editor"]
     @@ Optional("asset", look[2], "widget.mp4") :
     id \in {"segment-1", "segment-2", "segment-9"},
     look \in {<<"A", FALSE>>, <<"B", TRUE>>, <<"C", FALSE>>},
     change \in {<<"cut", 0>>, <<"zoom", 12>>}}

\* Records of no entry, one entry and two entries, two for the same segment
\* among them.
DecisionRecords ==
  {[segments |-> <<>>]}
    \cup {[segments |-> <<e>>] : e \in EntryUniverse}
    \cup {[segments |-> <<e, f>>] : e, f \in EntryUniverse}

InitDecisions ==
  /\ pc = "decide"
  /\ \E script \in PipelineScripts \ {"Buy it now."}, sfx \in SfxSourcesUniverse :
       pipelineInput = [scriptText            |-> script,
                        avatarSrc             |-> AvatarSrc,
                        avatarDurationSeconds |-> Ticks(MaxTicks),
                        helperVideoPaths      |-> <<>>,
                        helperImagePaths      |-> <<>>,
                        sfxPaths              |-> sfx,
                        config                |-> DEFAULT_PROJECT_CONFIG]
  /\ editingDecisions \in DecisionRecords
  /\ pipelineResults = <<>>
  /\ IdleTiming /\ IdleParser /\ IdleClips /\ IdleMatcher /\ IdlePlanner /\ IdleTimeline

RunPipelineWithDecisions ==
  /\ pc = "decide"
  /\ pipelineResults' = <<runPipelineWithDecisions(pipelineInput, editingDecisions)>>
  /\ pc' = "decided"
  /\ UNCHANGED <<pipelineInput, editingDecisions, timingVars, parserVars, clipVars,
                 matcherVars, plannerVars, timelineVars>>

NextDecisions == RunPipelineWithDecisions

SpecDecisions == InitDecisions /\ [][NextDecisions]_vars

(***************************************************************************)
(* The pipeline: runPipeline called on an input, then called again on the  *)
(* same input                                                              *)
(***************************************************************************)

Init ==
  /\ pc = "run"
  /\ \E script \in PipelineScripts, seconds \in {Ticks(0), Ticks(MaxTicks)},
        videos \in PipelineVideoPaths, sfx \in SfxSourcesUniverse :
       pipelineInput = [scriptText            |-> script,
                        avatarSrc             |-> AvatarSrc,
                        avatarDurationSeconds |-> seconds,
                        helperVideoPaths      |-> videos,
                        helperImagePaths      |-> <<>>,
                        sfxPaths              |-> sfx,
                        config                |-> DEFAULT_PROJECT_CONFIG]
  /\ pipelineResults = <<>>
  /\ editingDecisions = None
  /\ IdleTiming /\ IdleParser /\ IdleClips /\ IdleMatcher /\ IdlePlanner /\ IdleTimeline

RunPipeline ==
  /\ pc \in {"run", "rerun"}
  /\ \E front \in {pipelineFront(pipelineInput)} :
         \E random \in RandomDraws(Len(front.parsedScript.segments)) :
           pipelineResults' =
             Append(pipelineResults, pipelineBack(pipelineInput, front, random))
  /\ pc' = IF pc = "run" THEN "rerun" ELSE "done"
  /\ UNCHANGED <<pipelineInput, editingDecisions, timingVars, parserVars, clipVars,
                 matcherVars, plannerVars, timelineVars>>

Next == RunPipeline

Spec == Init /\ [][Next]_vars

(***************************************************************************)
(* Properties                                                              *)
(***************************************************************************)

\* C4: for a non-empty word list and any total frame count the spans that
\* distributeFramesAcrossWords returns are one per word, the first starts at
\* frame 0, each later one starts where the one before it ends, and the last
\* one ends at the requested total.
C4_SpansContiguous ==
  (pc = "distributed" /\ Len(words) > 0) =>
    /\ Len(wordTimings) = Len(words)
    /\ wordTimings[1].startFrame = 0
    /\ \A i \in 2..Len(wordTimings) :
          wordTimings[i].startFrame = wordTimings[i - 1].endFrame
    /\ wordTimings[Len(wordTimings)].endFrame = totalFrames

\* C4 witness: several words were distributed and the proportional shares do
\* not add up to the total, so the last word absorbed a rounding error.
C4_Witness ==
  /\ pc = "distributed"
  /\ Len(words) >= 2
  /\ totalFrames > 0
  /\ LET n == Len(words)
         weights == [i \in 1..n |-> estimateSyllables(words[i])]
     IN  wordTimings[n].endFrame - wordTimings[n].startFrame
           # Round(weights[n] * totalFrames, SumSeq(weights))

(***************************************************************************)
(* The segmenter's frame allocation and grouping                           *)
(***************************************************************************)

SumOfDurations(segments) == SumSeq([i \in 1..Len(segments) |-> segments[i].durationFrames])

\* The total frame count the segmenter was last given: actualTotalFrames of
\* realignSegmentTimings, else totalDurationFrames of parseScript, else the
\* estimate parseScript made from the word count.
TotalPassedToSegmenter ==
  IF pc = "realigned" THEN actualTotalFrames
  ELSE IF Has(parserOptions, "totalDurationFrames") THEN parserOptions.totalDurationFrames
  ELSE parsedScript.totalEstimatedFrames

\* C2 (as stated): for any segmentation and any total T passed to parseScript
\* or realignSegmentTimings, the segments' durationFrames sum to T exactly.
C2_SumEqualsTotalAnySegmentation ==
  pc \in {"parsed", "realigned"} =>
    SumOfDurations(parsedScript.segments) = TotalPassedToSegmenter

\* C2 (amended): for any segmentation with at least one segment and any total
\* T passed to parseScript or realignSegmentTimings, the segments'
\* durationFrames sum to T exactly.
C2_SumEqualsTotal ==
  (pc \in {"parsed", "realigned"} /\ Len(parsedScript.segments) > 0) =>
    SumOfDurations(parsedScript.segments) = TotalPassedToSegmenter

\* A realigned script of several segments whose last segment took up a
\* rounding error: its duration is not its rounded proportional share.
C2_Witness ==
  /\ pc = "realigned"
  /\ Len(parsedScript.segments) >= 2
  /\ LET segs == parsedScript.segments
         last == segs[Len(segs)]
     IN  last.durationFrames #
           Round(wordCount(last.text) * actualTotalFrames, parsedScript.totalWords)

\* The sentences of each segment of the parsed script.
ParsedGroups ==
  sentenceGroups(splitIntoSentences(cleanScriptText(scriptText)),
                 parserOptions.minSegmentWords, parserOptions.maxSegmentWords)

GroupWords(group) == SumSeq([k \in 1..Len(group) |-> wordCount(group[k])])

C9_ClipRanges ==
  pc \in {"trimmed", "kept"} =>
    LET clips == processedAvatar.clips
    IN  \A i \in 1..Len(clips) :
          /\ clips[i].originalStartFrame <= clips[i].originalEndFrame
          /\ clips[i].startFrame = (IF i = 1 THEN 0 ELSE clips[i - 1].endFrame)
          /\ i > 1 => clips[i - 1].originalEndFrame <= clips[i].originalStartFrame

\* Two silences given out of order, one inside the other, with a clip before
\* and a clip after them.
C9_Witness ==
  /\ pc = "trimmed"
  /\ Len(processedAvatar.silenceRegions) = 2
  /\ LET r == processedAvatar.silenceRegions
     IN  r[2].startFrame < r[1].startFrame /\ r[1].endFrame < r[2].endFrame
  /\ Len(processedAvatar.clips) = 2

\* C10: one silence from 2.0 s to 3.0 s, threshold 0.5 s, 10 s in all,
\* shortest clip 1.0 s, 30 fps: two clips, original frames [0, 60] and
\* [90, 300], output frames [0, 60] and [60, 270], 270 frames in all.
C10_ScenarioClips ==
  ( /\ pc = "trimmed"
    /\ silenceInput = ScenarioSilenceInput
    /\ (detectorOptions @@ DETECTOR_DEFAULT_OPTIONS) =
         [fps |-> 30, silenceThresholdSeconds |-> [num |-> 1, den |-> 2],
          minClipDurationSeconds |-> [num |-> 1, den |-> 1]] ) =>
    /\ [i \in 1..Len(processedAvatar.clips) |->
          LET c == processedAvatar.clips[i]
          IN  <<c.originalStartFrame, c.originalEndFrame, c.startFrame, c.endFrame>>]
         = << <<0, 60, 0, 60>>, <<90, 300, 60, 270>> >>
    /\ processedAvatar.processedDurationFrames = 270
    /\ processedAvatar.processedDurationFrames =
         processedAvatar.originalDurationFrames
           - processedAvatar.silenceRegions[1].durationFrames

\* The scenario has been run with the default threshold and shortest clip.
C10_Witness ==
  /\ pc = "trimmed"
  /\ silenceInput = ScenarioSilenceInput
  /\ detectorOptions = [fps |-> 30]
  /\ Len(processedAvatar.clips) = 2

(***************************************************************************)
(* The asset matcher's scores and matches                                  *)
(***************************************************************************)

\* 0 <= x <= 1 for a fraction x.
InUnitInterval(x) == x.den > 0 /\ 0 <= x.num /\ x.num <= x.den

\* C5: for every segment and every asset the score of calculateAssetRelevance
\* is in [0, 1], and so is the relevanceScore of every match.
C5_ScoreInUnitInterval ==
  pc = "matched" =>
    /\ \A i \in 1..Len(parsedScript.segments), j \in 1..Len(helperAssets) :
         InUnitInterval(calculateAssetRelevance(parsedScript.segments[i], helperAssets[j]).score)
    /\ \A m \in 1..Len(assetMatchResult.matches) :
         InUnitInterval(assetMatchResult.matches[m].relevanceScore)

\* A match whose weighted sum was above 1 and was clamped, next to a pair
\* that scores 0.
C5_Witness ==
  /\ pc = "matched"
  /\ \E m \in 1..Len(assetMatchResult.matches) :
       assetMatchResult.matches[m].relevanceScore = [num |-> 1, den |-> 1]
  /\ \E i \in 1..Len(parsedScript.segments), j \in 1..Len(helperAssets) :
       calculateAssetRelevance(parsedScript.segments[i], helperAssets[j]).score.num = 0

MatchesOfSegment(id) ==
  {m \in 1..Len(assetMatchResult.matches) : assetMatchResult.matches[m].segmentId = id}

\* C6: the match list never holds the same (segment, asset) pair twice and
\* never more than maxAssetsPerSegment matches of one segment.
C6_NoDuplicatePairNoExcess ==
  pc = "matched" =>
    LET matches == assetMatchResult.matches
    IN  /\ \A m, n \in 1..Len(matches) :
             (m # n /\ matches[m].segmentId = matches[n].segmentId)
               => matches[m].asset.src # matches[n].asset.src
        /\ \A i \in 1..Len(parsedScript.segments) :
             Cardinality(MatchesOfSegment(parsedScript.segments[i].id))
               <= (matcherOptions @@ MATCHER_DEFAULT_OPTIONS).maxAssetsPerSegment

\* The same asset listed twice with two matches allowed per segment: it
\* scores twice for a segment and is matched to it once.
C6_Witness ==
  /\ pc = "matched"
  /\ Len(helperAssets) = 2 /\ helperAssets[1] = helperAssets[2]
  /\ (matcherOptions @@ MATCHER_DEFAULT_OPTIONS).maxAssetsPerSegment = 2
  /\ \E m \in 1..Len(assetMatchResult.matches) :
       Cardinality(MatchesOfSegment(assetMatchResult.matches[m].segmentId)) = 1

(***************************************************************************)
(* The layout planner's layouts                                            *)
(***************************************************************************)

SegmentHasMatch(id) ==
  \E m \in 1..Len(assetMatchResult.matches) : assetMatchResult.matches[m].segmentId = id

\* C7: a decision has layout C only if its segment has an asset match and
\* importance high, and layout B only if its segment has an asset match and
\* importance other than high.
C7_LayoutOnlyIf ==
  pc = "planned" =>
    \A i \in 1..Len(layoutDecisions) :
      LET decision == layoutDecisions[i]
          segment  == parsedScript.segments[i]
      IN  /\ decision.segmentId = segment.id
          /\ decision.layout = "C" =>
               SegmentHasMatch(segment.id) /\ segment.importance = "high"
          /\ decision.layout = "B" =>
               SegmentHasMatch(segment.id) /\ segment.importance # "high"

\* A plan with a layout B decision and a layout C decision.
C7_Witness ==
  /\ pc = "planned"
  /\ \E i, j \in 1..Len(layoutDecisions) :
       layoutDecisions[i].layout = "B" /\ layoutDecisions[j].layout = "C"

(***************************************************************************)
(* The timeline's frames                                                   *)
(***************************************************************************)

\* The sum of the durationFrames of the items before item i.
DurationBefore(i) == SumSeq([k \in 1..(i - 1) |-> timeline.items[k].durationFrames])

\* totalDurationFrames is the sum of the items' durationFrames and every
\* item starts at the sum of the durations before it.
RunningSum ==
  /\ timeline.totalDurationFrames = DurationBefore(Len(timeline.items) + 1)
  /\ \A i \in 1..Len(timeline.items) :
       /\ timeline.items[i].startFrame = DurationBefore(i)
       /\ timeline.items[i].endFrame = DurationBefore(i + 1)

ScenarioParsed ==
  /\ pc \in {"parsed", "realigned"}
  /\ scriptText = ScenarioScript
  /\ parserOptions.minSegmentWords = 3
  /\ parserOptions.maxSegmentWords = 8

\* C11 (as stated): the scenario's script, parsed with minSegmentWords 3 and
\* maxSegmentWords 8, gives three segments, one for each sentence; the first
\* is "Introducing Widget X" and of high importance, the third is "Buy it
\* now" and of high importance.
C11_ThreeSegments ==
  ScenarioParsed =>
    /\ Len(parsedScript.segments) = 3
    /\ parsedScript.segments[1].text \in {"Introducing Widget X", "Introducing Widget X."}
    /\ parsedScript.segments[1].importance = "high"
    /\ parsedScript.segments[3].text \in {"Buy it now", "Buy it now."}
    /\ parsedScript.segments[3].importance = "high"

\* C11 (amended): the scenario's script, parsed with minSegmentWords 3 and
\* maxSegmentWords 8, gives two segments: the first is the first two
\* sentences, six words, which a third sentence would take past eight, and
\* is of high importance; the second is "Buy it now." and of high importance.
C11_TwoSegments ==
  ScenarioParsed =>
    /\ Len(parsedScript.segments) = 2
    /\ parsedScript.segments[1].text = "Introducing Widget X. It costs $20."
    /\ parsedScript.segments[1].importance = "high"
    /\ parsedScript.segments[2].text = "Buy it now."
    /\ parsedScript.segments[2].importance = "high"

\* The scenario's script has been parsed under the scenario's limits.
C11_Witness ==
  /\ ScenarioParsed
  /\ pc = "parsed"
  /\ Len(parsedScript.segments) > 0

(***************************************************************************)
(* The three signals of the relevance score                                *)
(***************************************************************************)

\* The three signals calculateAssetRelevance combines for a segment and an
\* asset, before the weights.
Signals(segment, asset) ==
  With(relevanceCounts(segment, asset), LAMBDA counts :
    <<directScore(counts.directMatches, counts.maxPossible),
      partialScore(counts.partialMatches, counts.maxPossible),
      titleScore(counts.titleMatches, counts.titleCount)>>)

\* C17: for every segment and every asset the matcher has scored, the direct
\* keyword overlap, the half-weighted partial overlap and the title-word
\* fraction are each at least 0 and at most 1.
C17_SignalsInUnitInterval ==
  pc = "matched" =>
    \A s \in 1..Len(parsedScript.segments), a \in 1..Len(helperAssets) :
      \A k \in 1..3 :
        InUnitInterval(Signals(parsedScript.segments[s], helperAssets[a])[k])

(***************************************************************************)
(* The timeline's duration and the processed avatar's                      *)
(***************************************************************************)

\* Every segment of the script has a layout decision.
AllSegmentsDecided ==
  \A i \in 1..Len(parsedScript.segments) :
    IsDefined(decisionFor(parsedScript.segments[i].id, layoutDecisions))

\* C13: for a script of at least one segment, a decision for every segment
\* and any processed avatar, of one clip or of several, the timeline's
\* totalDurationFrames is the avatar's processedDurationFrames, and every
\* item lasts as long as the avatar clip resolved for it.
C13_TotalIsProcessedDuration ==
  (pc = "built" /\ Len(parsedScript.segments) > 0 /\ AllSegmentsDecided) =>
    /\ timeline.totalDurationFrames = processedAvatar.processedDurationFrames
    /\ \A i \in 1..Len(timeline.items) :
         timeline.items[i].durationFrames =
           timeline.items[i].avatarClip.endFrame - timeline.items[i].avatarClip.startFrame

(***************************************************************************)
(* What validateTimeline calls an error and what a warning                 *)
(***************************************************************************)

\* The four conditions C16 names.
StructurallyBroken ==
  \/ Len(timeline.items) = 0
  \/ timeline.totalDurationFrames <= 0
  \/ \E i \in 1..Len(timeline.items) : timeline.items[i].durationFrames <= 0
  \/ \E i \in 1..Len(timeline.items) : timeline.items[i].avatarClip.src = ""

\* The positions whose item does not start where the item before it ends.
Mismatches ==
  {i \in 2..Len(timeline.items) :
     timeline.items[i].startFrame # timeline.items[i - 1].endFrame}

\* The B and C items without helper asset.
Helpless ==
  {i \in 1..Len(timeline.items) :
     timeline.items[i].layout \in {"B", "C"} /\ ~Has(timeline.items[i], "helperAsset")}

\* The warning C16 expects for the mismatch at position i.
MismatchWarning(i) ==
  LET prev == timeline.items[i - 1]
      curr == timeline.items[i]
  IN  IF curr.startFrame < prev.endFrame
      THEN "Overlap between items " \o prev.id \o " and " \o curr.id \o " ("
             \o numberToString(prev.endFrame - curr.startFrame) \o " frames)"
      ELSE "Gap between items " \o prev.id \o " and " \o curr.id \o " ("
             \o numberToString(curr.startFrame - prev.endFrame) \o " frames)"

\* C16: validateTimeline returns valid = false exactly when the timeline has
\* no item, or its totalDurationFrames is not positive, or an item's
\* durationFrames is not positive, or an item has no avatar source. A B or C
\* item without helper asset adds a warning, and so does every item that does
\* not start where the item before it ends: one overlap or gap warning for
\* the pair, with the number of frames between the two; no warning changes
\* valid.
C16_ErrorsAndWarnings ==
  pc = "validated" =>
    /\ validation.valid <=> ~StructurallyBroken
    /\ validation.valid <=> (validation.errors = <<>>)
    /\ Len(validation.warnings) = Cardinality(Mismatches) + Cardinality(Helpless)
    /\ \A i \in Mismatches :
         Cardinality({k \in 1..Len(validation.warnings) :
                        validation.warnings[k] = MismatchWarning(i)}) = 1
    /\ \A i \in Helpless :
         \E k \in 1..Len(validation.warnings) :
           /\ includes(validation.warnings[k], timeline.items[i].id)
           /\ includes(validation.warnings[k], "helper asset")

\* A valid timeline with an overlap of one frame and a B item without helper
\* asset: two warnings, no error.
C16_Witness ==
  /\ pc = "validated"
  /\ validation.valid
  /\ Len(timeline.items) = 2
  /\ timeline.items[2].startFrame < timeline.items[1].endFrame
  /\ Helpless # {}
  /\ Len(validation.warnings) = 2

(***************************************************************************)
(* The pipeline on a script without words                                  *)
(***************************************************************************)

\* The script handed to the pipeline is empty or blanks only.
BlankScript ==
  \A i \in 1..Len(pipelineInput.scriptText) : Char(pipelineInput.scriptText, i) \in Whitespace

\* C15: for an empty script and for a script of blanks only the pipeline
\* parses no segment and returns a validation that is not valid and lists at
\* least one error.
C15_BlankScriptIsAnError ==
  BlankScript =>
    \A r \in 1..Len(pipelineResults) :
      /\ Len(pipelineResults[r].parsedScript.segments) = 0
      /\ ~pipelineResults[r].validation.valid
      /\ Len(pipelineResults[r].validation.errors) > 0

\* The pipeline has run on a script of blanks only, for a video that has a
\* length.
C15_Witness ==
  /\ pc = "done"
  /\ BlankScript
  /\ Len(pipelineInput.scriptText) > 0
  /\ pipelineInput.avatarDurationSeconds.num > 0
  /\ pipelineResults[1].timeline.items = <<>>

(***************************************************************************)
(* Decisions made elsewhere                                                *)
(***************************************************************************)

\* The decisions record has an entry for the segment id.
HasEntry(id) ==
  \E k \in 1..Len(editingDecisions.segments) : editingDecisions.segments[k].id = id

\* The first entry of the decisions record for the segment id.
FirstEntry(id) ==
  editingDecisions.segments[
    CHOOSE k \in 1..Len(editingDecisions.segments) :
      /\ editingDecisions.segments[k].id = id
      /\ \A j \in 1..(k - 1) : editingDecisions.segments[j].id # id]

\* What C14 says of the decision made for a segment.
DecidedAsRecorded(segment, decision) ==
  /\ decision.segmentId = segment.id
  /\ IF HasEntry(segment.id)
     THEN /\ decision.layout = FirstEntry(segment.id).layout
          /\ decision.transition.type = FirstEntry(segment.id).transition
          /\ decision.transition.durationFrames = FirstEntry(segment.id).transitionDuration
     ELSE /\ decision.layout = "A"
          /\ decision.transition.type = "fade"
          /\ ~Has(decision, "helperAsset")

\* What C14 says of the PipelineResult of runPipelineWithDecisions.
OneDecisionPerSegment(result) ==
  /\ Len(result.layoutDecisions) = Len(result.parsedScript.segments)
  /\ Len(result.timeline.items) = Len(result.parsedScript.segments)
  /\ \A i \in 1..Len(result.parsedScript.segments) :
       /\ DecidedAsRecorded(result.parsedScript.segments[i], result.layoutDecisions[i])
       /\ result.timeline.items[i].segmentId = result.parsedScript.segments[i].id
       /\ result.timeline.items[i].layout = result.layoutDecisions[i].layout
       /\ Cardinality({d \in 1..Len(result.layoutDecisions) :
                         result.layoutDecisions[d].segmentId
                           = result.parsedScript.segments[i].id}) = 1

\* C14: in runPipelineWithDecisions every parsed segment gets exactly one
\* layout decision: the layout and the transition of its entry in the
\* decisions record when it has one, and layout A with a fade transition and
\* no helper asset when it has none; the timeline has one item per segment.
C14_OneDecisionPerSegment ==
  pc = "decided" => OneDecisionPerSegment(pipelineResults[1])

\* A script of three segments: one with an entry of layout B, the others
\* without an entry.
C14_Witness ==
  /\ pc = "decided"
  /\ Len(pipelineResults[1].parsedScript.segments) = 3
  /\ HasEntry("segment-2") /\ ~HasEntry("segment-1") /\ ~HasEntry("segment-3")
  /\ pipelineResults[1].layoutDecisions[2].layout = "B"
  /\ pipelineResults[1].layoutDecisions[3].layout = "A"

(***************************************************************************)
(* The pipeline without helper assets                                      *)
(***************************************************************************)

NoHelperAssets ==
  pipelineInput.helperVideoPaths = <<>> /\ pipelineInput.helperImagePaths = <<>>

\* No message of the list is about a helper asset.
NoneAboutHelperAsset(messages) ==
  \A k \in 1..Len(messages) : ~includes(messages[k], "helper asset")

\* What C12 says of one PipelineResult.
AllLayoutAUnreproached(result) ==
  /\ matchAssetsToSegments(result.parsedScript.segments, pipelineAssets(pipelineInput),
                           None).matches = <<>>
  /\ Len(result.layoutDecisions) = Len(result.parsedScript.segments)
  /\ \A d \in 1..Len(result.layoutDecisions) :
       /\ result.layoutDecisions[d].layout = "A"
       /\ ~Has(result.layoutDecisions[d], "helperAsset")
  /\ NoneAboutHelperAsset(
       validateLayoutPlan(result.layoutDecisions, result.parsedScript.segments).errors)
  /\ NoneAboutHelperAsset(result.validation.errors)
  /\ NoneAboutHelperAsset(result.validation.warnings)

\* C12: when the pipeline is given no helper asset, the matcher returns no
\* match, every segment's layout decision is A and has no helper asset, and
\* neither validateLayoutPlan nor validateTimeline reports an error or a
\* warning about a helper asset.
C12_NoAssetsAllLayoutA ==
  NoHelperAssets =>
    \A r \in 1..Len(pipelineResults) : AllLayoutAUnreproached(pipelineResults[r])

\* The pipeline has run without helper assets on a script of three segments,
\* the first of them of high importance.
C12_Witness ==
  /\ pc = "done"
  /\ NoHelperAssets
  /\ Len(pipelineResults[1].parsedScript.segments) = 3
  /\ pipelineResults[1].parsedScript.segments[1].importance = "high"

(***************************************************************************)
(* The greedy assignment of the asset matcher                              *)
(***************************************************************************)

\* The options matchAssetsToSegments works with.
MatcherOpts == matcherOptions @@ MATCHER_DEFAULT_OPTIONS

\* The score of segment i of the script for an asset.
ScoreFor(i, asset) == calculateAssetRelevance(parsedScript.segments[i], asset).score

\* Segment i holds maxAssetsPerSegment matches, each scoring at least score.
FullOfNoWorse(i, score) ==
  With(MatchesOfSegment(parsedScript.segments[i].id), LAMBDA held :
    /\ Cardinality(held) = MatcherOpts.maxAssetsPerSegment
    /\ \A n \in held : ~FractionLess(assetMatchResult.matches[n].relevanceScore, score))

\* Segment i is not the segment of match m and scores the asset of match m
\* strictly higher than the segment of match m does.
WantsMore(i, m) ==
  /\ parsedScript.segments[i].id # assetMatchResult.matches[m].segmentId
  /\ FractionLess(assetMatchResult.matches[m].relevanceScore,
                  ScoreFor(i, assetMatchResult.matches[m].asset))

\* The pairs that score at least minRelevanceScore, as <<segment, asset>>
\* positions, and the first of the highest-scoring ones in the order the
\* pairs are scored.
QualifyingPairs ==
  {p \in (1..Len(parsedScript.segments)) \X (1..Len(helperAssets)) :
     ~FractionLess(ScoreFor(p[1], helperAssets[p[2]]), MatcherOpts.minRelevanceScore)}

\* Two fractions of one value.
SameValue(x, y) == ~FractionLess(x, y) /\ ~FractionLess(y, x)

ScannedBefore(p, q) == p[1] < q[1] \/ (p[1] = q[1] /\ p[2] < q[2])

HighestPair ==
  CHOOSE p \in QualifyingPairs :
    \A q \in QualifyingPairs \ {p} :
      \/ FractionLess(ScoreFor(q[1], helperAssets[q[2]]), ScoreFor(p[1], helperAssets[p[2]]))
      \/ /\ SameValue(ScoreFor(q[1], helperAssets[q[2]]), ScoreFor(p[1], helperAssets[p[2]]))
         /\ ScannedBefore(p, q)

SameAssetTwice(m, n) ==
  /\ m # n
  /\ assetMatchResult.matches[m].asset.src = assetMatchResult.matches[n].asset.src

\* C22: with allowAssetReuse false no asset, taken by its src, is in two
\* matches; with it true an asset is in at most one match of a segment; and
\* every match scores at least minRelevanceScore.
C22_ReuseAndThreshold ==
  pc = "matched" =>
    \A m, n \in 1..Len(assetMatchResult.matches) :
      /\ ~FractionLess(assetMatchResult.matches[m].relevanceScore,
                       MatcherOpts.minRelevanceScore)
      /\ SameAssetTwice(m, n) =>
           /\ MatcherOpts.allowAssetReuse
           /\ assetMatchResult.matches[m].segmentId # assetMatchResult.matches[n].segmentId

\* Asset reuse disabled, and an asset that qualifies for two segments and
\* is matched to one of them.
C22_Witness ==
  /\ pc = "matched"
  /\ ~MatcherOpts.allowAssetReuse
  /\ \E p, q \in QualifyingPairs : p[1] # q[1] /\ helperAssets[p[2]] = helperAssets[q[2]]
  /\ Len(assetMatchResult.matches) > 0

\* Asset reuse enabled, and an asset matched to two segments.
C22_Reused ==
  /\ pc = "matched"
  /\ MatcherOpts.allowAssetReuse
  /\ \E m, n \in 1..Len(assetMatchResult.matches) : SameAssetTwice(m, n)

(***************************************************************************)
(* What the asset matcher reports as unassigned                            *)
(***************************************************************************)

MatchedSegmentIds ==
  {assetMatchResult.matches[m].segmentId : m \in 1..Len(assetMatchResult.matches)}

MatchedAssetSrcs ==
  {assetMatchResult.matches[m].asset.src : m \in 1..Len(assetMatchResult.matches)}

\* C23: unmatchedSegments holds the ids of the segments that are in no
\* match and unmatchedAssets the sources of the assets that are in no match:
\* a segment or an asset is in a match or in the unmatched list, never both
\* and never neither.
C23_UnmatchedExactly ==
  pc = "matched" =>
    /\ Range(assetMatchResult.unmatchedSegments) =
         {parsedScript.segments[i].id : i \in 1..Len(parsedScript.segments)}
           \ MatchedSegmentIds
    /\ Range(assetMatchResult.unmatchedAssets) =
         {helperAssets[j].src : j \in 1..Len(helperAssets)} \ MatchedAssetSrcs

\* A result with a matched and an unmatched segment and a matched and an
\* unmatched asset.
C23_Witness ==
  /\ pc = "matched"
  /\ MatchedSegmentIds # {} /\ Len(assetMatchResult.unmatchedSegments) > 0
  /\ MatchedAssetSrcs # {} /\ Len(assetMatchResult.unmatchedAssets) > 0

(***************************************************************************)
(* What the stages leave of their inputs: the merge pass, the asset        *)
(* matcher, the layout planner and the timeline builder, each on its own   *)
(* inputs                                                                  *)
(***************************************************************************)

InitStages == InitMerger \/ InitMatcher \/ InitPlanner \/ InitTimeline

NextStages == MergeCloseClips \/ MatchAssetsToSegments \/ PlanLayouts \/ BuildTimeline

SpecStages == InitStages /\ [][NextStages]_vars

\* The array mergeCloseClips is about to be handed.
MergeInput == IF pc = "merge" THEN clipList ELSE mergedClips.merged

\* A step of mergeCloseClips leaves every clip object there was as it was,
\* and the array it was first handed; handed two clips or more it returns
\* objects that were not there before.
MergeLeavesInputs ==
  /\ \A ref \in 1..Len(heap) : heap'[ref] = heap[ref]
  /\ clipList' = clipList
  /\ Len(MergeInput) >= 2 =>
       /\ ~mergedClips'.sameArray
       /\ \A i \in 1..Len(mergedClips'.merged) : mergedClips'.merged[i] > Len(heap)

StageLeavesInputs ==
  /\ pc \in {"merge", "merged"} => MergeLeavesInputs
  /\ pc = "match" => UNCHANGED <<parsedScript, helperAssets>>
  /\ pc = "plan" => UNCHANGED <<parsedScript, assetMatchResult>>
  /\ pc = "build" => UNCHANGED <<parsedScript, processedAvatar, layoutDecisions>>

WordWithin(word, segment) ==
  /\ word.startFrame <= word.endFrame
  /\ segment.startFrame <= word.startFrame
  /\ word.endFrame <= segment.endFrame

\* C25: every word of every segment the segmenter produces starts no later
\* than it ends and lies within the frame range of its segment.
C25_WordsWithinSegment ==
  pc \in {"parsed", "realigned"} =>
    \A i \in 1..Len(parsedScript.segments) :
      \A w \in 1..Len(parsedScript.segments[i].words) :
        WordWithin(parsedScript.segments[i].words[w], parsedScript.segments[i])

(***************************************************************************)
(* Segments of positive duration                                           *)
(***************************************************************************)

\* The frame count the segments of the script were last timed for.
TimedFor == parsedScript.totalEstimatedFrames

\* C26: when the total frame count is at least the word count of the
\* script, every segment has durationFrames > 0 and
\* 0 <= startFrame < endFrame <= the total.
C26_PositiveDurations ==
  (pc \in {"parsed", "realigned"} /\ TimedFor >= parsedScript.totalWords) =>
    \A i \in 1..Len(parsedScript.segments) :
      LET segment == parsedScript.segments[i]
      IN  /\ segment.durationFrames > 0
          /\ 0 <= segment.startFrame
          /\ segment.startFrame < segment.endFrame
          /\ segment.endFrame <= TimedFor

(***************************************************************************)
(* The clip list across the merge pass                                     *)
(***************************************************************************)

\* Original ranges in order and disjoint, output ranges one after the
\* other from 0.
ClipListInvariant(clips) ==
  /\ \A i \in 1..Len(clips) :
       /\ clips[i].originalStartFrame <= clips[i].originalEndFrame
       /\ clips[i].startFrame = IF i = 1 THEN 0 ELSE clips[i - 1].endFrame
  /\ \A i \in 2..Len(clips) :
       clips[i - 1].originalEndFrame <= clips[i].originalStartFrame

\* The clips handed to the first call of mergeCloseClips, and the clips it
\* returned.
ClipsGiven == clipsAt(heap, clipList)

ClipsMerged == clipsAt(heap, mergedClips.merged)

\* C27: handed a clip list with original ranges in order and disjoint and
\* output ranges contiguous from 0, mergeCloseClips returns a clip list with
\* original ranges in order and disjoint and output ranges contiguous from 0.
C27_MergeKeepsClipListInvariant ==
  (pc = "merged" /\ ClipListInvariant(ClipsGiven)) => ClipListInvariant(ClipsMerged)

(***************************************************************************)
(* The merge pass applied twice                                            *)
(***************************************************************************)

\* The tolerance mergeCloseClips works with.
Tolerance == IF minGapFrames = None THEN DEFAULT_MIN_GAP_FRAMES ELSE minGapFrames[1]

\* Every two adjacent clips are further apart in the original than the
\* tolerance.
ApartBeyondTolerance(clips) ==
  \A i \in 2..Len(clips) :
    clips[i].originalStartFrame - clips[i - 1].originalEndFrame > Tolerance

\* A call returns clips that are apart beyond the tolerance, and the second
\* call returns a list equal to the one it was handed.
MergeSettles ==
  /\ ApartBeyondTolerance(ClipsMerged')
  /\ pc = "merged" => ClipsMerged' = ClipsMerged

\* C28: mergeCloseClips is idempotent: the clips it returns are pairwise
\* separated in the original by more than the tolerance, and a second call
\* with the same tolerance returns an equal clip list.
C28_MergeIsIdempotent == [][MergeSettles]_vars

\* A second call on a list of two clips or more that the first call made
\* by merging.
C28_Witness ==
  /\ pc = "merged again"
  /\ Len(mergedClips.merged) >= 2
  /\ Len(mergedClips.merged) < Len(clipList)

(***************************************************************************)
(* Clips free of silence                                                   *)
(***************************************************************************)

\* The original range of the clip and the silence region share a frame.
HoldsSilence(clip, region) ==
  Max(clip.originalStartFrame, region.startFrame)
    < Min(clip.originalEndFrame, region.endFrame)

\* The retained silence regions lie within the video.
SilencesWithinVideo ==
  \A r \in 1..Len(processedAvatar.silenceRegions) :
    /\ 0 <= processedAvatar.silenceRegions[r].startFrame
    /\ processedAvatar.silenceRegions[r].endFrame <= processedAvatar.originalDurationFrames

\* C29: with the retained silence regions within the video, overlapping and
\* nested ones included, the original range of no clip, the clip after the
\* last silence included, shares a frame with a retained silence region.
C29_NoSilenceInClips ==
  (pc = "trimmed" /\ SilencesWithinVideo) =>
    \A c \in 1..Len(processedAvatar.clips), r \in 1..Len(processedAvatar.silenceRegions) :
      ~HoldsSilence(processedAvatar.clips[c], processedAvatar.silenceRegions[r])

(***************************************************************************)
(* The layout plan as a whole                                              *)
(***************************************************************************)

\* Match m is a match of the segment that no match of the segment outscores.
HighestOfSegment(m, id) ==
  /\ m \in MatchesOfSegment(id)
  /\ \A n \in MatchesOfSegment(id) :
       ~FractionLess(assetMatchResult.matches[m].relevanceScore,
                     assetMatchResult.matches[n].relevanceScore)

\* C30: planLayouts returns one decision per segment, in segment order; the
\* plan passes validateLayoutPlan; a decision of layout B or C carries the
\* asset of a highest-scoring match of its segment, and a decision of layout
\* A carries no asset.
C30_PlanIsCompleteAndValid ==
  pc = "planned" =>
    /\ Len(layoutDecisions) = Len(parsedScript.segments)
    /\ validateLayoutPlan(layoutDecisions, parsedScript.segments).valid
    /\ validateLayoutPlan(layoutDecisions, parsedScript.segments).errors = <<>>
    /\ \A i \in 1..Len(layoutDecisions) :
         LET decision == layoutDecisions[i]
         IN  /\ decision.segmentId = parsedScript.segments[i].id
             /\ IF decision.layout \in {"B", "C"}
                THEN /\ Has(decision, "helperAsset")
                     /\ \E m \in 1..Len(assetMatchResult.matches) :
                          /\ HighestOfSegment(m, decision.segmentId)
                          /\ assetMatchResult.matches[m].asset = decision.helperAsset
                ELSE decision.layout = "A" /\ ~Has(decision, "helperAsset")

\* A plan with a segment that has two matches of different scores, and a
\* segment of layout A.
C30_Witness ==
  /\ pc = "planned"
  /\ \E m, n \in 1..Len(assetMatchResult.matches) :
       /\ assetMatchResult.matches[m].segmentId = assetMatchResult.matches[n].segmentId
       /\ FractionLess(assetMatchResult.matches[n].relevanceScore,
                       assetMatchResult.matches[m].relevanceScore)
  /\ \E i \in 1..Len(layoutDecisions) : layoutDecisions[i].layout = "A"

(***************************************************************************)
(* Text overlays of the layout plan                                        *)
(***************************************************************************)

\* The segment has something extractDisplayPhrase can show: a quoted phrase,
\* a number followed by a word, two keywords or more, or a keyword word.
HasPhraseToShow(segment) ==
  \/ Len(QuotedMatches(segment.text, 1)) > 0
  \/ firstDisplayNumbered(segment.text) # <<>>
  \/ Len(segment.keywords) >= 2
  \/ \E w \in 1..Len(segment.words) : segment.words[w].isKeyword

C18_NothingToShow ==
  /\ pc = "planned"
  /\ \E i \in 1..Len(layoutDecisions) :
       /\ ~SegmentHasMatch(parsedScript.segments[i].id)
       /\ parsedScript.segments[i].hasKeyPhrase
       /\ ~HasPhraseToShow(parsedScript.segments[i])
       /\ ~Has(layoutDecisions[i], "textOverlay")

(***************************************************************************)
(* Transitions of the layout plan                                          *)
(***************************************************************************)

\* The transition types a change from one layout to another may get.
Candidates(fromLayout, toLayout) ==
  CASE fromLayout = "A" /\ toLayout = "A"          -> {"cut", "fade"}
    [] fromLayout = "A" /\ toLayout \in {"B", "C"} -> {"slide-left", "zoom"}
    [] fromLayout \in {"B", "C"} /\ toLayout = "A" -> {"slide-right", "fade"}
    [] fromLayout = "B" /\ toLayout = "C"          -> {"zoom"}
    [] fromLayout = "C" /\ toLayout = "B"          -> {"fade"}
    [] OTHER                                       -> {"cut"}

\* The transitionDurationFrames planLayouts works with.
ConfiguredTransitionFrames ==
  IF Has(plannerOptions, "transitionDurationFrames")
  THEN plannerOptions.transitionDurationFrames
  ELSE PLANNER_DEFAULT_OPTIONS.transitionDurationFrames

\* The layouts of decisions i - 1 and i in a list of their own.
LayoutChange(i) == <<layoutDecisions[i - 1].layout, layoutDecisions[i].layout>>

FourWordScript == "Go. Buy. Try. Now."

InitRealigner ==
  /\ pc = "parse"
  /\ scriptText \in EditorScripts \cup {ScenarioScript, FourWordScript}
  /\ \E limits \in SegmentLimits, given \in BOOLEAN, total \in {0, 1, MaxFrames} :
       /\ given \/ total = 0
       /\ parserOptions = [fps |-> Fps, minSegmentWords |-> limits[1],
                           maxSegmentWords |-> limits[2]]
                            @@ Optional("totalDurationFrames", given, total)
  /\ parsedScript = None
  /\ actualTotalFrames = 0
  /\ IdleTiming /\ IdleClips /\ IdleMatcher /\ IdlePlanner /\ IdleTimeline /\ IdlePipeline

NextRealigner == ParseScript \/ Realign

SpecRealigner == InitRealigner /\ [][NextRealigner]_vars

\* The segments parseScript made of the script before the re-alignment.
ParsedBefore == parseScript(scriptText, parserOptions).segments

\* The segments parseScript makes of the script when told the frame count
\* the re-alignment was given.
ParsedAfresh ==
  parseScript(scriptText,
              [totalDurationFrames |-> actualTotalFrames] @@ parserOptions).segments

\* The fields of a segment that say what it is, and those that say when.
SegmentContent(segment) ==
  <<segment.id, segment.text, segment.keywords, segment.importance, segment.hasKeyPhrase>>

SegmentTiming(segment) ==
  <<segment.startFrame, segment.endFrame, segment.durationFrames, segment.words>>

\* C20: re-alignment does not re-split: the re-aligned script has the
\* segments of the script it was given, in number, order, id, text, keywords,
\* importance and key-phrase flag, and their frame ranges and word timings
\* are those parseScript produces for the same text and the new frame count.
C20_RealignDoesNotResplit ==
  pc = "realigned" =>
    With(ParsedBefore, LAMBDA before :
    With(ParsedAfresh, LAMBDA afresh :
      /\ Len(parsedScript.segments) = Len(before)
      /\ Len(parsedScript.segments) = Len(afresh)
      /\ \A i \in 1..Len(parsedScript.segments) :
           /\ SegmentContent(parsedScript.segments[i]) = SegmentContent(before[i])
           /\ SegmentTiming(parsedScript.segments[i]) = SegmentTiming(afresh[i])))

\* A script of two segments or more parsed with one frame count and
\* re-aligned to another, which moves the second segment and its first word.
C20_Witness ==
  /\ pc = "realigned"
  /\ Has(parserOptions, "totalDurationFrames")
  /\ parserOptions.totalDurationFrames # actualTotalFrames
  /\ Len(parsedScript.segments) >= 2
  /\ With(ParsedBefore, LAMBDA before :
        /\ parsedScript.segments[2].startFrame # before[2].startFrame
        /\ parsedScript.segments[2].words # before[2].words)

(***************************************************************************)
(* The pipeline run twice                                                  *)
(***************************************************************************)

\* C8: two runs of the pipeline on the same input return the same timeline:
\* the same layouts, transition types and durations and sfx for every item.
\* runPipeline takes no random source or seed, so the input is all that the
\* two runs can share; the values of Math.random() are drawn for each run.
C8_SameInputSameTimeline ==
  pc = "done" => pipelineResults[1].timeline = pipelineResults[2].timeline

====
